---- MODULE Spec2Model ----
(***************************************************************************)
(* Model of the class-schedule generator of solver_service/scheduler.py:   *)
(* the input index (SchedulingData), the tracker (GroupScheduleTracker),   *)
(* the block decomposer, the position finder, the displacement engine,     *)
(* the language-course placer and the orchestrator with its verification   *)
(* pass.  Random choices (shuffle, choice, randint) are nondeterministic.  *)
(***************************************************************************)
EXTENDS Integers, Sequences, FiniteSets, TLC

(* ---------------------------------------------------------------------- *)
(* Bounds of the model                                                     *)
(* ---------------------------------------------------------------------- *)

\* rounds of the while loop of force_assign_with_displacement per block in
\* the first pass (the code's default max_attempts, capped)
MaxAttempts == 1

\* rounds per block in the verification pass (the code passes a larger
\* max_attempts there, capped)
VerifyAttempts == 1

\* number of distinct outcomes of random.randint(1000, 9999) that are drawn
NumRandIds == 1

\* number of assign calls made on the tracker used on its own that are not
\* yet undone
MaxUndo == 2

\* largest weekly_hours and largest min/max_block_duration of the courses the
\* block decomposer is run on by itself
MaxWeeklyHours == 6

MaxBlockDuration == 3

(* ---------------------------------------------------------------------- *)
(* Strings: a str is a sequence of character codes                         *)
(* ---------------------------------------------------------------------- *)

Colon == 58

Digit(n) == 48 + n

\* str(datetime.time(h, 0, 0)) = "HH:00:00"
TimeStr(h) ==
    << Digit(h \div 10), Digit(h % 10), Colon, Digit(0), Digit(0), Colon, Digit(0), Digit(0) >>

\* the literal "17:00"
Str1700 == << Digit(1), Digit(7), Colon, Digit(0), Digit(0) >>

\* the literal "22:00"
Str2200 == << Digit(2), Digit(2), Colon, Digit(0), Digit(0) >>

Min2(a, b) == IF a < b THEN a ELSE b

\* Python's a < b on str: lexicographic on the codes, a proper prefix is smaller
StrLess(a, b) ==
    LET n == Min2(Len(a), Len(b))
        diff == { i \in 1..n : a[i] # b[i] }
    IN IF diff = {}
       THEN Len(a) < Len(b)
       ELSE LET k == CHOOSE i \in diff : \A j \in diff : i <= j
            IN a[k] < b[k]

StrLeq(a, b) == a = b \/ StrLess(a, b)

RECURSIVE DigitsValue(_, _)
DigitsValue(s, n) ==
    IF n = 0 THEN 0 ELSE 10 * DigitsValue(s, n - 1) + (s[n] - 48)

\* int(start_time.split(':')[0])
HourOf(s) ==
    LET colons == { i \in 1..Len(s) : s[i] = Colon }
        n == IF colons = {} THEN Len(s)
             ELSE (CHOOSE i \in colons : \A j \in colons : i <= j) - 1
    IN DigitsValue(s, n)

(* ---------------------------------------------------------------------- *)
(* Generic helpers for dicts, lists and sets                                *)
(* ---------------------------------------------------------------------- *)

\* Python's None (also the falsy 0 / "" the code tests with `not x`)
None == 0

NoHour == << >>

EmptyDict == << >>

Put(f, k, v) == [ x \in (DOMAIN f) \cup {k} |-> IF x = k THEN v ELSE f[x] ]

Range(s) == { s[i] : i \in DOMAIN s }

RECURSIVE SetToSortedSeq(_)
SetToSortedSeq(S) ==
    IF S = {} THEN << >>
    ELSE LET m == CHOOSE x \in S : \A y \in S : x <= y
         IN << m >> \o SetToSortedSeq(S \ {m})

RECURSIVE Perms(_)
\* all orders random.shuffle can leave a list with the elements of S in
Perms(S) ==
    IF S = {} THEN { << >> }
    ELSE UNION { { << x >> \o p : p \in Perms(S \ {x}) } : x \in S }

RECURSIVE SumSeq(_)
SumSeq(s) == IF s = << >> THEN 0 ELSE s[1] + SumSeq(Tail(s))

(* ---------------------------------------------------------------------- *)
(* Inputs: timeslots as fetch_all_data_for_solver builds them, and the      *)
(* input collections of a run                                               *)
(* ---------------------------------------------------------------------- *)

DAY_MAP == << "Lunes", "Martes", "Miércoles", "Jueves", "Viernes" >>

day_order == << "Lunes", "Martes", "Miércoles", "Jueves", "Viernes", "Sábado", "Domingo" >>

\* one row of the timeslot query: id = day_id * 1000 + hour, start_time = str(time)
MkSlot(d, h) == [ id |-> d * 1000 + h, day |-> DAY_MAP[d], start_time |-> TimeStr(h) ]

\* the rows for a set of (day_id, hour) pairs, ORDER BY id_slot
MkTimeslots(pairs) ==
    LET ids == SetToSortedSeq({ p[1] * 1000 + p[2] : p \in pairs })
    IN [ i \in 1..Len(ids) |-> MkSlot(ids[i] \div 1000, ids[i] % 1000) ]

MkCourse(id, english, wh, mn, mx) ==
    [ id |-> id, english |-> english, weekly_hours |-> wh,
      min_block_duration |-> mn, max_block_duration |-> mx ]

MkProfessor(id, unavailable) == [ id |-> id, availability |-> unavailable ]

MkAssignment(p, c, g) == [ professor_id |-> p, course_id |-> c, group_id |-> g ]

\* Scenario 1: two professors share room 5; course 1 is one 3-hour block,
\* course 2 a single hour whose professor can only teach Lunes 18:00.
\* The timeslot set also holds slots outside [17:00, 22:00).
Scenario1 ==
    [ timeslots |-> MkTimeslots({1, 2} \X {16, 17, 18, 19, 22}),
      courses |-> << MkCourse(1, FALSE, 3, 2, 3), MkCourse(2, FALSE, 1, 1, 1) >>,
      professors |-> << MkProfessor(1, {}),
                        MkProfessor(2, {1017, 1019, 2017, 2018, 2019, 1016, 2022}) >>,
      assignments |-> << MkAssignment(1, 1, 1), MkAssignment(2, 2, 2) >>,
      professor_rooms |-> (1 :> 5 @@ 2 :> 5),
      groups |-> << 1, 2 >> ]

\* Scenario 2: a language course (two one-hour sessions) taken by three groups
\* with the same professor, who has too few free hours for all of them, and a
\* short course of groups 1 and 2 with a second professor in another room.
Scenario2 ==
    [ timeslots |-> MkTimeslots({1, 2, 3} \X {17, 18}),
      courses |-> << MkCourse(1, TRUE, 2, 1, 1), MkCourse(2, FALSE, 2, 1, 1) >>,
      professors |-> << MkProfessor(1, {3018}), MkProfessor(2, {1017, 2017}) >>,
      assignments |-> << MkAssignment(1, 1, 1), MkAssignment(2, 2, 1),
                         MkAssignment(1, 1, 2), MkAssignment(2, 2, 2),
                         MkAssignment(1, 1, 3) >>,
      professor_rooms |-> (1 :> 1 @@ 2 :> 2),
      groups |-> << 1, 2, 3 >> ]

\* Scenario 3: one course of two 2-hour blocks; Martes has a gap between its
\* hours, so only Lunes holds a 2-hour window and the verification pass has
\* to fill the deficit with one-hour blocks.
Scenario3 ==
    [ timeslots |-> MkTimeslots({<<1, 17>>, <<1, 18>>, <<2, 17>>, <<2, 19>>, <<2, 23>>}),
      courses |-> << MkCourse(1, FALSE, 4, 2, 2) >>,
      professors |-> << MkProfessor(1, {}) >>,
      assignments |-> << MkAssignment(1, 1, 1) >>,
      professor_rooms |-> (1 :> 1),
      groups |-> << 1 >> ]

\* Scenario 4: a language course with 2-hour blocks (placed by the generic
\* loop) next to a 2-hour course of another professor in the same room.
Scenario4 ==
    [ timeslots |-> MkTimeslots({1, 2} \X {17, 18, 19}),
      courses |-> << MkCourse(1, FALSE, 3, 1, 2), MkCourse(2, TRUE, 4, 2, 2) >>,
      professors |-> << MkProfessor(1, {}), MkProfessor(2, {2019}) >>,
      assignments |-> << MkAssignment(1, 1, 1), MkAssignment(2, 2, 1) >>,
      professor_rooms |-> (1 :> 1 @@ 2 :> 1),
      groups |-> << 1 >> ]

\* Scenario 5: the timeslots cover Lunes, Martes and Jueves only.  Language
\* course 1 needs two consecutive days, language course 2 needs three, which
\* this week does not hold; course 3 is an ordinary two-session course.
Scenario5 ==
    [ timeslots |-> MkTimeslots({1, 2, 4} \X {17, 18}),
      courses |-> << MkCourse(1, TRUE, 2, 1, 1), MkCourse(2, TRUE, 3, 1, 1),
                     MkCourse(3, FALSE, 2, 1, 1) >>,
      professors |-> << MkProfessor(1, {1017}), MkProfessor(2, {}), MkProfessor(3, {4017}) >>,
      assignments |-> << MkAssignment(1, 1, 1), MkAssignment(2, 2, 1), MkAssignment(3, 3, 1) >>,
      professor_rooms |-> (1 :> 1 @@ 2 :> 2 @@ 3 :> 1),
      groups |-> << 1 >> ]

\* Scenario 6: absent lookups.  Professor 3 has no room, the pair (group 2,
\* course 2) carries professor id 0, professor 4 is not in the professor
\* list (but has a room), course 9 is not in the course list.
Scenario6 ==
    [ timeslots |-> MkTimeslots({1, 2} \X {17, 18}),
      courses |-> << MkCourse(1, FALSE, 2, 1, 2), MkCourse(2, FALSE, 1, 1, 1) >>,
      professors |-> << MkProfessor(1, {2018}) >>,
      assignments |-> << MkAssignment(1, 1, 1), MkAssignment(3, 1, 2), MkAssignment(4, 2, 1),
                         MkAssignment(0, 2, 2), MkAssignment(1, 9, 1) >>,
      professor_rooms |-> (1 :> 1 @@ 4 :> 2),
      groups |-> << 1, 2 >> ]

\* Scenario 7: the assignments name group 9, which is not in the group list.
Scenario7 ==
    [ timeslots |-> MkTimeslots({1, 2} \X {17, 18}),
      courses |-> << MkCourse(1, FALSE, 2, 1, 2), MkCourse(2, FALSE, 1, 1, 1) >>,
      professors |-> << MkProfessor(1, {}) >>,
      assignments |-> << MkAssignment(1, 1, 1), MkAssignment(1, 2, 9) >>,
      professor_rooms |-> (1 :> 1),
      groups |-> << 1 >> ]

\* Scenario 8: group 2 is in the group list but in no assignment.  Group 1
\* fills its four slots: a two-session course and a 2-hour block of another
\* professor in the same room, which has to displace a session.
Scenario8 ==
    [ timeslots |-> MkTimeslots({1, 2} \X {17, 18}),
      courses |-> << MkCourse(1, FALSE, 2, 1, 1), MkCourse(2, FALSE, 2, 2, 2) >>,
      professors |-> << MkProfessor(1, {}), MkProfessor(2, {}) >>,
      assignments |-> << MkAssignment(1, 1, 1), MkAssignment(2, 2, 1) >>,
      professor_rooms |-> (1 :> 1 @@ 2 :> 1),
      groups |-> << 1, 2 >> ]

\* Scenario 9: two groups and an empty assignment list.
Scenario9 ==
    [ timeslots |-> MkTimeslots({1, 2} \X {17, 18}),
      courses |-> << MkCourse(1, FALSE, 2, 1, 1) >>,
      professors |-> << MkProfessor(1, {}) >>,
      assignments |-> << >>,
      professor_rooms |-> (1 :> 1),
      groups |-> << 1, 2 >> ]

\* Scenario 10: an empty group list, with an assignment for a group 1.
Scenario10 ==
    [ timeslots |-> MkTimeslots({1, 2} \X {17, 18}),
      courses |-> << MkCourse(1, FALSE, 2, 1, 1) >>,
      professors |-> << MkProfessor(1, {}) >>,
      assignments |-> << MkAssignment(1, 1, 1) >>,
      professor_rooms |-> (1 :> 1),
      groups |-> << >> ]

\* Scenario 11: an empty group list and an empty assignment list.
Scenario11 ==
    [ timeslots |-> MkTimeslots({1, 2} \X {17, 18}),
      courses |-> << MkCourse(1, FALSE, 2, 1, 1) >>,
      professors |-> << MkProfessor(1, {}) >>,
      assignments |-> << >>,
      professor_rooms |-> (1 :> 1),
      groups |-> << >> ]

\* Scenario 12: three 3-hour courses on a week of Lunes 17:00-19:00 and
\* Martes 17:00.  Course 1 of group 1 is one 3-hour block; course 2 of group
\* 2 has one-hour sessions in the same room and a professor free only Lunes
\* 18:00; course 3 of group 2 is one 3-hour block in another room.
Scenario12 ==
    [ timeslots |-> MkTimeslots({ << 1, 17 >>, << 1, 18 >>, << 1, 19 >>, << 2, 17 >> }),
      courses |-> << MkCourse(1, FALSE, 3, 3, 3), MkCourse(2, FALSE, 3, 1, 1),
                     MkCourse(3, FALSE, 3, 3, 3) >>,
      professors |-> << MkProfessor(1, {}), MkProfessor(2, {1017, 1019, 2017}),
                        MkProfessor(3, {}) >>,
      assignments |-> << MkAssignment(1, 1, 1), MkAssignment(2, 2, 2), MkAssignment(3, 3, 2) >>,
      professor_rooms |-> (1 :> 5 @@ 2 :> 5 @@ 3 :> 6),
      groups |-> << 1, 2 >> ]

\* Scenario 13: one group whose assignments name a 1-hour course, then a
\* 2-hour course, then a language course of two sessions: the reverse of the
\* priority order.
Scenario13 ==
    [ timeslots |-> MkTimeslots({1, 2} \X {17, 18, 19}),
      courses |-> << MkCourse(1, FALSE, 1, 1, 1), MkCourse(2, FALSE, 2, 1, 2),
                     MkCourse(3, TRUE, 2, 1, 1) >>,
      professors |-> << MkProfessor(1, {}), MkProfessor(2, {}), MkProfessor(3, {}) >>,
      assignments |-> << MkAssignment(1, 1, 1), MkAssignment(2, 2, 1), MkAssignment(3, 3, 1) >>,
      professor_rooms |-> (1 :> 1 @@ 2 :> 1 @@ 3 :> 2),
      groups |-> << 1 >> ]

\* Scenario 14: four 3-hour courses on a week of Lunes and Martes
\* 17:00-19:00.  Group 2 has a 3-hour block (course 1, professor free on
\* Martes only at 18:00) and one-hour sessions (course 2) in the same room
\* with a professor free only Lunes 18:00; group 1 has two 3-hour blocks
\* (courses 3 and 4), each in a room of its own, the professor of course 4
\* free on Lunes only.
Scenario14 ==
    [ timeslots |-> MkTimeslots({1, 2} \X {17, 18, 19}),
      courses |-> << MkCourse(1, FALSE, 3, 3, 3), MkCourse(2, FALSE, 3, 1, 1),
                     MkCourse(3, FALSE, 3, 3, 3), MkCourse(4, FALSE, 3, 3, 3) >>,
      professors |-> << MkProfessor(1, {2017, 2019}),
                        MkProfessor(2, {1017, 1019, 2017, 2018, 2019}),
                        MkProfessor(3, {}), MkProfessor(4, {2017, 2018, 2019}) >>,
      assignments |-> << MkAssignment(1, 1, 2), MkAssignment(2, 2, 2),
                         MkAssignment(3, 3, 1), MkAssignment(4, 4, 1) >>,
      professor_rooms |-> (1 :> 5 @@ 2 :> 5 @@ 3 :> 7 @@ 4 :> 6),
      groups |-> << 1, 2 >> ]

Scenarios ==
    << Scenario1, Scenario2, Scenario3, Scenario4, Scenario5, Scenario6, Scenario7,
       Scenario8, Scenario9, Scenario10, Scenario11, Scenario12, Scenario13, Scenario14 >>

(* ---------------------------------------------------------------------- *)
(* Input Index (SchedulingData.__init__ and its lookups)                    *)
(* ---------------------------------------------------------------------- *)

\* faulty variant: the upper end of the window is not tested
IsValidSlot_NoUpper(s) == StrLeq(Str1700, s.start_time)

\* self.valid_slots: "17:00" <= s.start_time < "22:00" on strings
IsValidSlot(s) == StrLeq(Str1700, s.start_time) /\ StrLess(s.start_time, Str2200)

\* self.slots_by_day[day], sorted by slot id
SlotsOfDay(valid, day) ==
    LET ids == SetToSortedSeq({ valid[i].id : i \in { j \in DOMAIN valid : valid[j].day = day } })
    IN [ i \in 1..Len(ids) |-> CHOOSE s \in Range(valid) : s.id = ids[i] ]

\* self.group_course_professor: the last assignment of a key wins
GroupCourseProfessorOf(assignments) ==
    LET keys == { << assignments[i].group_id, assignments[i].course_id >> : i \in DOMAIN assignments }
    IN [ k \in keys |->
           LET idx == { i \in DOMAIN assignments :
                          << assignments[i].group_id, assignments[i].course_id >> = k }
               last == CHOOSE i \in idx : \A j \in idx : j <= i
           IN assignments[last].professor_id ]

SchedulingData(in) ==
    LET valid == SelectSeq(in.timeslots, IsValidSlot)
        dayset == { valid[i].day : i \in DOMAIN valid }
        all_slot_ids == { in.timeslots[i].id : i \in DOMAIN in.timeslots }
    IN [ courses |-> [ id \in { in.courses[i].id : i \in DOMAIN in.courses } |->
                         CHOOSE c \in Range(in.courses) : c.id = id ],
         professor_rooms |-> in.professor_rooms,
         professor_available_slots |->
             [ p \in { in.professors[i].id : i \in DOMAIN in.professors } |->
                 all_slot_ids \ (CHOOSE q \in Range(in.professors) : q.id = p).availability ],
         group_course_professor |-> GroupCourseProfessorOf(in.assignments),
         valid_slots |-> valid,
         \* slots_by_day.keys(), and the assignments and groups of the run
         days |-> dayset,
         slots_by_day |-> [ d \in dayset |-> SlotsOfDay(valid, d) ],
         assignments |-> in.assignments,
         groups |-> in.groups ]

\* the index of every scenario, built once
Data == [ i \in DOMAIN Scenarios |-> SchedulingData(Scenarios[i]) ]

(* ---------------------------------------------------------------------- *)
(* SchedulingData lookups and room usage                                    *)
(* ---------------------------------------------------------------------- *)

\* faulty variant: the unavailability set is ignored
is_professor_available_Ignored(d, professor_id, slot_ids) == TRUE

is_professor_available_at_slots(d, professor_id, slot_ids) ==
    IF professor_id \notin DOMAIN d.professor_available_slots
    THEN TRUE
    ELSE \A i \in DOMAIN slot_ids : slot_ids[i] \in d.professor_available_slots[professor_id]

get_professor_for_group_course(d, group_id, course_id) ==
    IF << group_id, course_id >> \in DOMAIN d.group_course_professor
    THEN d.group_course_professor[<< group_id, course_id >>]
    ELSE None

get_professor_room(d, professor_id) ==
    IF professor_id \in DOMAIN d.professor_rooms
    THEN d.professor_rooms[professor_id]
    ELSE None

\* faulty variant: room usage is never consulted
is_room_available_Ignored(ru, room_id, slot_ids) == TRUE

is_room_available(ru, room_id, slot_ids) ==
    IF room_id \notin DOMAIN ru
    THEN TRUE
    ELSE \A i \in DOMAIN slot_ids : slot_ids[i] \notin ru[room_id]

mark_room_used(ru, room_id, slot_ids) ==
    Put(ru, room_id, (IF room_id \in DOMAIN ru THEN ru[room_id] ELSE {}) \cup Range(slot_ids))

unmark_room_used(ru, room_id, slot_ids) ==
    IF room_id \in DOMAIN ru
    THEN Put(ru, room_id, ru[room_id] \ Range(slot_ids))
    ELSE ru

(* ---------------------------------------------------------------------- *)
(* GroupScheduleTracker                                                     *)
(* ---------------------------------------------------------------------- *)

EmptyTracker ==
    [ prof_schedule |-> EmptyDict, group_schedule |-> EmptyDict,
      course_fixed_hour |-> EmptyDict, group_course_days |-> EmptyDict ]

can_assign_professor(t, prof_id, slot_ids) ==
    IF prof_id \notin DOMAIN t.prof_schedule
    THEN TRUE
    ELSE \A i \in DOMAIN slot_ids : slot_ids[i] \notin DOMAIN t.prof_schedule[prof_id]

\* faulty variant: the group's busy slots are never consulted
can_assign_group_Ignored(t, group_id, slot_ids) == TRUE

can_assign_group(t, group_id, slot_ids) ==
    IF group_id \notin DOMAIN t.group_schedule
    THEN TRUE
    ELSE \A i \in DOMAIN slot_ids : slot_ids[i] \notin DOMAIN t.group_schedule[group_id]

get_used_days_for_course(t, group_id, course_id) ==
    IF << group_id, course_id >> \in DOMAIN t.group_course_days
    THEN t.group_course_days[<< group_id, course_id >>]
    ELSE {}

add_day_for_course(t, group_id, course_id, day) ==
    [ t EXCEPT !.group_course_days =
        Put(@, << group_id, course_id >>, get_used_days_for_course(t, group_id, course_id) \cup {day}) ]

remove_day_for_course(t, group_id, course_id, day) ==
    IF << group_id, course_id >> \in DOMAIN t.group_course_days
    THEN [ t EXCEPT !.group_course_days =
             Put(@, << group_id, course_id >>, @[<< group_id, course_id >>] \ {day}) ]
    ELSE t

get_fixed_hour_for_course(t, group_id, course_id) ==
    IF << group_id, course_id >> \in DOMAIN t.course_fixed_hour
    THEN t.course_fixed_hour[<< group_id, course_id >>]
    ELSE NoHour

set_fixed_hour_for_course(t, group_id, course_id, hour) ==
    [ t EXCEPT !.course_fixed_hour = Put(@, << group_id, course_id >>, hour) ]

\* d[k][slot] = v for every slot of slot_ids, creating d[k] when absent
PutSlots(dict, k, slot_ids, v) ==
    LET old == IF k \in DOMAIN dict THEN dict[k] ELSE EmptyDict
    IN Put(dict, k, [ x \in (DOMAIN old) \cup Range(slot_ids) |->
                        IF x \in Range(slot_ids) THEN v ELSE old[x] ])

\* d[k].pop(slot, None) for every slot of slot_ids, when k is a key
PopSlots(dict, k, slot_ids) ==
    IF k \in DOMAIN dict
    THEN Put(dict, k, [ x \in (DOMAIN dict[k]) \ Range(slot_ids) |-> dict[k][x] ])
    ELSE dict

assign(t, prof_id, group_id, slot_ids, course_id) ==
    [ t EXCEPT !.prof_schedule = PutSlots(@, prof_id, slot_ids, group_id),
               !.group_schedule = PutSlots(@, group_id, slot_ids, course_id) ]

unassign(t, prof_id, group_id, slot_ids) ==
    [ t EXCEPT !.prof_schedule = PopSlots(@, prof_id, slot_ids),
               !.group_schedule = PopSlots(@, group_id, slot_ids) ]

(* ---------------------------------------------------------------------- *)
(* Block Decomposer                                                         *)
(* ---------------------------------------------------------------------- *)

\* faulty variant: the block is raised to min_block_duration without testing
\* that so many hours remain
BlockDur_NoGuard(course, remaining) ==
    LET first == Min2(remaining, course.max_block_duration)
    IN IF first < course.min_block_duration THEN course.min_block_duration ELSE first

\* faulty variant: the shortest allowed block is emitted while it fits
BlockDur_AlwaysMin(course, remaining) ==
    IF remaining >= course.min_block_duration
    THEN course.min_block_duration
    ELSE Min2(remaining, course.max_block_duration)

\* block_dur of one iteration of the while loop
BlockDur(course, remaining) ==
    LET first == Min2(remaining, course.max_block_duration)
    IN IF first < course.min_block_duration /\ remaining >= course.min_block_duration
       THEN course.min_block_duration
       ELSE first

RECURSIVE BlocksFrom(_, _)
BlocksFrom(course, remaining) ==
    IF remaining > 0
    THEN LET block_dur == BlockDur(course, remaining)
         IN << block_dur >> \o BlocksFrom(course, remaining - block_dur)
    ELSE << >>

calculate_course_blocks(course) == BlocksFrom(course, course.weekly_hours)

(* ---------------------------------------------------------------------- *)
(* Position Finder                                                          *)
(* ---------------------------------------------------------------------- *)

\* the slots day_slots[start_idx : start_idx + duration], start_idx 0-based
Window(day_slots, start_idx, duration) ==
    [ j \in 1..duration |-> day_slots[start_idx + j] ]

SlotIds(slots) == [ j \in DOMAIN slots |-> slots[j].id ]

\* faulty variant: any d adjacent slots of the list count as continuous
IsContinuous_Adjacent(consecutive) == TRUE

\* the hour-continuity test on a window
IsContinuous(consecutive) ==
    \A j \in 1..(Len(consecutive) - 1) :
        HourOf(consecutive[j + 1].start_time) - HourOf(consecutive[j].start_time) = 1

\* faulty variant: a window is not tested against the busy slots of the
\* professor and of the room
WindowIsValid_GroupOnly(d, t, ru, consecutive, prof_id, room_id, group_id, is_english, fixed_hour) ==
    /\ IsContinuous(consecutive)
    /\ is_professor_available_at_slots(d, prof_id, SlotIds(consecutive))
    /\ ~(is_english /\ fixed_hour # NoHour /\ consecutive[1].start_time # fixed_hour)
    /\ can_assign_group(t, group_id, SlotIds(consecutive))

\* faulty variant: a window is not tested against the fixed hour
WindowIsValid_AnyHour(d, t, ru, consecutive, prof_id, room_id, group_id, is_english, fixed_hour) ==
    /\ IsContinuous(consecutive)
    /\ is_professor_available_at_slots(d, prof_id, SlotIds(consecutive))
    /\ can_assign_professor(t, prof_id, SlotIds(consecutive))
    /\ can_assign_group(t, group_id, SlotIds(consecutive))
    /\ is_room_available(ru, room_id, SlotIds(consecutive))

\* the tests a window must pass once professor and room are resolved
WindowIsValid(d, t, ru, consecutive, prof_id, room_id, group_id, is_english, fixed_hour) ==
    /\ IsContinuous(consecutive)
    /\ is_professor_available_at_slots(d, prof_id, SlotIds(consecutive))
    /\ ~(is_english /\ fixed_hour # NoHour /\ consecutive[1].start_time # fixed_hour)
    /\ can_assign_professor(t, prof_id, SlotIds(consecutive))
    /\ can_assign_group(t, group_id, SlotIds(consecutive))
    /\ is_room_available(ru, room_id, SlotIds(consecutive))

find_all_valid_positions(d, t, ru, course, group_id, duration, day, is_english, fixed_hour) ==
    LET prof_id == get_professor_for_group_course(d, group_id, course.id)
        room_id == get_professor_room(d, prof_id)
    IN IF prof_id = None \/ room_id = None \/ day \notin DOMAIN d.slots_by_day
       THEN << >>
       ELSE LET day_slots == d.slots_by_day[day]
                starts == { i \in 0..(Len(day_slots) - duration) :
                              WindowIsValid(d, t, ru, Window(day_slots, i, duration),
                                            prof_id, room_id, group_id, is_english, fixed_hour) }
                ordered == SetToSortedSeq(starts)
            IN [ k \in 1..Len(ordered) |->
                   [ day |-> day,
                     start_idx |-> ordered[k],
                     slot_ids |-> SlotIds(Window(day_slots, ordered[k], duration)),
                     first_hour |-> day_slots[ordered[k] + 1].start_time,
                     room_id |-> room_id,
                     prof_id |-> prof_id ] ]

(* ---------------------------------------------------------------------- *)
(* Group schedules: a dict in insertion order is a sequence of entries      *)
(* [hour_id, slot_id, room_id, course_id]; the identifier                   *)
(* G{gid}_C{cid}_B{block}_H{hour} is the tuple <<gid, cid, block, hour>>    *)
(* ---------------------------------------------------------------------- *)

HourId(group_id, course_id, block, j) == << group_id, course_id, block, j >>

\* the first three parts of the identifier
BlockKey(hour_id) == << hour_id[1], hour_id[2], hour_id[3] >>

Keys(schedule) == { schedule[i].hour_id : i \in DOMAIN schedule }

\* schedule[hour_id] = (slot_id, room_id, course_id)
DictSet(schedule, hour_id, slot_id, room_id, course_id) ==
    LET e == [ hour_id |-> hour_id, slot_id |-> slot_id, room_id |-> room_id, course_id |-> course_id ]
    IN IF hour_id \in Keys(schedule)
       THEN [ i \in DOMAIN schedule |-> IF schedule[i].hour_id = hour_id THEN e ELSE schedule[i] ]
       ELSE Append(schedule, e)

\* del schedule[hour_id] when present
DictDel(schedule, hour_id) ==
    LET Keep(e) == e.hour_id # hour_id
    IN SelectSeq(schedule, Keep)

RECURSIVE WriteBlock(_, _, _, _, _, _, _)
\* the loop writing the hours j = from-1 .. of one block under block id
WriteBlock(schedule, group_id, course_id, block, slot_ids, room_id, from) ==
    IF from > Len(slot_ids)
    THEN schedule
    ELSE WriteBlock(DictSet(schedule, HourId(group_id, course_id, block, from - 1),
                            slot_ids[from], room_id, course_id),
                    group_id, course_id, block, slot_ids, room_id, from + 1)

(* ---------------------------------------------------------------------- *)
(* Displacement Engine: conflicts                                           *)
(* ---------------------------------------------------------------------- *)

RECURSIVE FirstAppearance(_, _)
\* the block keys of a list of entries in order of first appearance
FirstAppearance(entries, seen) ==
    IF entries = << >> THEN << >>
    ELSE LET k == BlockKey(entries[1].hour_id)
         IN IF k \in seen
            THEN FirstAppearance(Tail(entries), seen)
            ELSE << k >> \o FirstAppearance(Tail(entries), seen \cup {k})

\* the conflicts one group's schedule contributes
ConflictsOfGroup(d, other_group_id, schedule, slot_ids) ==
    LET Hit(e) == e.slot_id \in Range(slot_ids)
        hits == SelectSeq(schedule, Hit)
        keys == FirstAppearance(hits, {})
    IN [ k \in 1..Len(keys) |->
           LET InBlock(e) == BlockKey(e.hour_id) = keys[k]
               hours == SelectSeq(hits, InBlock)
               course_id == hours[1].course_id
               known == course_id \in DOMAIN d.courses
           IN [ block_key |-> keys[k],
                group_id |-> other_group_id,
                course_id |-> course_id,
                has_course |-> known,
                is_english |-> known /\ d.courses[course_id].english,
                hours |-> [ i \in 1..Len(hours) |->
                              [ hour_id |-> hours[i].hour_id,
                                slot_id |-> hours[i].slot_id,
                                room_id |-> hours[i].room_id ] ] ] ]

RECURSIVE ConflictsFrom(_, _, _, _)
ConflictsFrom(d, schedules, slot_ids, gi) ==
    IF gi > Len(d.groups) THEN << >>
    ELSE ConflictsOfGroup(d, d.groups[gi], schedules[d.groups[gi]], slot_ids)
         \o ConflictsFrom(d, schedules, slot_ids, gi + 1)

get_conflicting_blocks(d, schedules, slot_ids) == ConflictsFrom(d, schedules, slot_ids, 1)

(* ---------------------------------------------------------------------- *)
(* State                                                                    *)
(* ---------------------------------------------------------------------- *)

VARIABLES
    scn,             \* which input the run was started on
    all_schedules,   \* group id -> schedule (entries in insertion order)
    global_tracker,  \* the GroupScheduleTracker
    room_usage,      \* data.room_usage: room id -> set of slot ids
    pc,              \* where the run is
    orch,            \* position of generate_schedule_for_all_groups in its loops
    frame,           \* locals of the running force_assign_with_displacement call
    scan,            \* locals of the displacement loops of that call
    calc,            \* locals of a calculate_course_blocks call run on its own
    ep,              \* the /generate request: its stage, the horario_clases rows, its response
    undo             \* the assign calls made on a tracker used on its own, latest last

vars == << scn, all_schedules, global_tracker, room_usage, pc, orch, frame, scan, calc, ep, undo >>

D == Data[scn]

RandIds == 1000..(1000 + NumRandIds - 1)

\* the three mutable structures, passed through the pure helpers together
Cur == [ s |-> all_schedules, t |-> global_tracker, r |-> room_usage ]

NoFrame ==
    [ course_id |-> 0, group_id |-> 0, is_english |-> FALSE, block_durations |-> << >>,
      max_attempts |-> 0, fixed_hour |-> NoHour, block_idx |-> 0, attempts |-> 0,
      blocks_assigned |-> 0 ]

\* no request is running: the core was called directly
NoEndpoint == [ stage |-> "none", rows |-> {}, found |-> {}, status |-> None, results |-> << >> ]

\* no decomposer call is running on its own
NoCalc == [ course |-> MkCourse(0, FALSE, 0, 0, 0), remaining |-> 0, blocks |-> << >> ]

NoScan ==
    [ days |-> << >>, di |-> 0, start_idx |-> 0, movable |-> << >>, mi |-> 0,
      sequences |-> << >>, hours_to_try |-> << >>, si |-> 0, hi |-> 0 ]

(* ---------------------------------------------------------------------- *)
(* Writing one block: hour entries, tracker, room usage, used day           *)
(* ---------------------------------------------------------------------- *)

\* faulty variant: the block is written into the schedule of every group
PlaceBlock_EveryGroup(st, course, group_id, block, pos, day) ==
    LET t1 == assign(st.t, pos.prof_id, group_id, pos.slot_ids, course.id)
    IN [ s |-> [ g \in DOMAIN st.s |->
                   WriteBlock(st.s[g], group_id, course.id, block, pos.slot_ids, pos.room_id, 1) ],
         t |-> IF course.max_block_duration = 1
               THEN add_day_for_course(t1, group_id, course.id, day)
               ELSE t1,
         r |-> mark_room_used(st.r, pos.room_id, pos.slot_ids) ]

\* faulty variant: the professor id is written where the room id belongs
PlaceBlock_ProfAsRoom(st, course, group_id, block, pos, day) ==
    LET t1 == assign(st.t, pos.prof_id, group_id, pos.slot_ids, course.id)
    IN [ s |-> [ st.s EXCEPT ![group_id] =
                   WriteBlock(@, group_id, course.id, block, pos.slot_ids, pos.prof_id, 1) ],
         t |-> IF course.max_block_duration = 1
               THEN add_day_for_course(t1, group_id, course.id, day)
               ELSE t1,
         r |-> mark_room_used(st.r, pos.room_id, pos.slot_ids) ]

PlaceBlock(st, course, group_id, block, pos, day) ==
    LET t1 == assign(st.t, pos.prof_id, group_id, pos.slot_ids, course.id)
    IN [ s |-> [ st.s EXCEPT ![group_id] =
                   WriteBlock(@, group_id, course.id, block, pos.slot_ids, pos.room_id, 1) ],
         t |-> IF course.max_block_duration = 1
               THEN add_day_for_course(t1, group_id, course.id, day)
               ELSE t1,
         r |-> mark_room_used(st.r, pos.room_id, pos.slot_ids) ]

\* faulty variant: used days are never skipped
DaySkipped_Never(t, course, group_id, day) == FALSE

\* the day a course may not be tried on: one session per day for short courses
DaySkipped(t, course, group_id, day) ==
    course.max_block_duration = 1 /\ day \in get_used_days_for_course(t, group_id, course.id)

(* ---------------------------------------------------------------------- *)
(* Displacement Engine: relocation of one conflicting block                 *)
(* ---------------------------------------------------------------------- *)

\* old_day: the day of the first valid slot whose id is old_slot_ids[0]
OldDay(d, slot_id) ==
    LET idx == { i \in DOMAIN d.valid_slots : d.valid_slots[i].id = slot_id }
    IN IF idx = {} THEN "" ELSE d.valid_slots[CHOOSE i \in idx : \A j \in idx : i <= j].day

RECURSIVE DeleteHours(_, _, _)
DeleteHours(schedule, hours, i) ==
    IF i > Len(hours) THEN schedule
    ELSE DeleteHours(DictDel(schedule, hours[i].hour_id), hours, i + 1)

RECURSIVE RestoreHours(_, _, _, _)
RestoreHours(schedule, hours, course_id, i) ==
    IF i > Len(hours) THEN schedule
    ELSE RestoreHours(DictSet(schedule, hours[i].hour_id, hours[i].slot_id,
                              hours[i].room_id, course_id),
                      hours, course_id, i + 1)

\* the state after the block was taken out of schedule, tracker and room usage
Removed(d, st, conflict) ==
    LET group_id == conflict.group_id
        course == d.courses[conflict.course_id]
        prof_id == get_professor_for_group_course(d, group_id, conflict.course_id)
        old_slot_ids == [ i \in DOMAIN conflict.hours |-> conflict.hours[i].slot_id ]
        old_day == OldDay(d, old_slot_ids[1])
        t1 == unassign(st.t, prof_id, group_id, old_slot_ids)
    IN [ s |-> [ st.s EXCEPT ![group_id] = DeleteHours(@, conflict.hours, 1) ],
         t |-> IF old_day # "" /\ course.max_block_duration = 1
               THEN remove_day_for_course(t1, group_id, conflict.course_id, old_day)
               ELSE t1,
         r |-> unmark_room_used(st.r, conflict.hours[1].room_id, old_slot_ids) ]

\* faulty variant: the room is not marked as used again
Restored_RoomLeftFree(d, st, conflict) ==
    LET group_id == conflict.group_id
        course == d.courses[conflict.course_id]
        prof_id == get_professor_for_group_course(d, group_id, conflict.course_id)
        old_slot_ids == [ i \in DOMAIN conflict.hours |-> conflict.hours[i].slot_id ]
        old_day == OldDay(d, old_slot_ids[1])
        t1 == assign(st.t, prof_id, group_id, old_slot_ids, conflict.course_id)
    IN [ s |-> [ st.s EXCEPT ![group_id] = RestoreHours(@, conflict.hours, conflict.course_id, 1) ],
         t |-> IF old_day # "" /\ course.max_block_duration = 1
               THEN add_day_for_course(t1, group_id, conflict.course_id, old_day)
               ELSE t1,
         r |-> st.r ]

\* the state after the original placement was put back
Restored(d, st, conflict) ==
    LET group_id == conflict.group_id
        course == d.courses[conflict.course_id]
        prof_id == get_professor_for_group_course(d, group_id, conflict.course_id)
        old_slot_ids == [ i \in DOMAIN conflict.hours |-> conflict.hours[i].slot_id ]
        old_day == OldDay(d, old_slot_ids[1])
        t1 == assign(st.t, prof_id, group_id, old_slot_ids, conflict.course_id)
    IN [ s |-> [ st.s EXCEPT ![group_id] = RestoreHours(@, conflict.hours, conflict.course_id, 1) ],
         t |-> IF old_day # "" /\ course.max_block_duration = 1
               THEN add_day_for_course(t1, group_id, conflict.course_id, old_day)
               ELSE t1,
         r |-> mark_room_used(st.r, conflict.hours[1].room_id, old_slot_ids) ]

\* the days on which the relocation loop finds a position
RelocationDays(d, st, conflict) ==
    LET course == d.courses[conflict.course_id]
        fixed_hour == IF conflict.is_english
                      THEN get_fixed_hour_for_course(st.t, conflict.group_id, conflict.course_id)
                      ELSE NoHour
    IN { day \in d.days :
           /\ ~DaySkipped(st.t, course, conflict.group_id, day)
           /\ find_all_valid_positions(d, st.t, st.r, course, conflict.group_id,
                                       Len(conflict.hours), day, conflict.is_english,
                                       fixed_hour) # << >> }

\* every outcome [ok, st] of try_relocate_block(conflict) from state st; the
\* shuffled day order makes any day with a position the first one found
try_relocate_block(d, st, conflict) ==
    IF ~conflict.has_course
       \/ get_professor_for_group_course(d, conflict.group_id, conflict.course_id) = None
    THEN { [ ok |-> FALSE, st |-> st ] }
    ELSE LET course == d.courses[conflict.course_id]
             out == Removed(d, st, conflict)
             fixed_hour == IF conflict.is_english
                           THEN get_fixed_hour_for_course(out.t, conflict.group_id, conflict.course_id)
                           ELSE NoHour
             found == RelocationDays(d, out, conflict)
         IN IF found = {}
            THEN { [ ok |-> FALSE, st |-> Restored(d, out, conflict) ] }
            ELSE UNION { UNION {
                   { [ ok |-> TRUE,
                       st |-> PlaceBlock(out, course, conflict.group_id, rid, pos, day) ] :
                     rid \in RandIds } :
                   pos \in Range(find_all_valid_positions(d, out.t, out.r, course,
                                     conflict.group_id, Len(conflict.hours), day,
                                     conflict.is_english, fixed_hour)) } :
                   day \in found }

(* ---------------------------------------------------------------------- *)
(* Orchestrator: course order and the calls of the two passes               *)
(* ---------------------------------------------------------------------- *)

RECURSIVE UniqueCourses(_, _, _)
\* unique_courses: course ids of the assignments, first appearance, known ones
UniqueCourses(d, i, seen) ==
    IF i > Len(d.assignments) THEN << >>
    ELSE LET c == d.assignments[i].course_id
         IN IF c \in seen \/ c \notin DOMAIN d.courses
            THEN UniqueCourses(d, i + 1, seen)
            ELSE << c >> \o UniqueCourses(d, i + 1, seen \cup {c})

RECURSIVE SortByHoursDesc(_, _)
\* others.sort(key=weekly_hours, reverse=True): stable
SortByHoursDesc(d, ids) ==
    IF ids = << >> THEN << >>
    ELSE LET best == CHOOSE i \in DOMAIN ids :
                        /\ \A j \in DOMAIN ids :
                             d.courses[ids[j]].weekly_hours <= d.courses[ids[i]].weekly_hours
                        /\ \A j \in 1..(i - 1) :
                             d.courses[ids[j]].weekly_hours < d.courses[ids[i]].weekly_hours
             Other(c) == c # ids[best]
         IN << ids[best] >> \o SortByHoursDesc(d, SelectSeq(ids, Other))

\* faulty variant: the courses keep the order of the assignment list
sorted_courses_AsListed(d) == UniqueCourses(d, 1, {})

sorted_courses(d) ==
    LET courses_list == UniqueCourses(d, 1, {})
        IsEnglish(c) == d.courses[c].english
        NotEnglish(c) == ~d.courses[c].english
    IN SelectSeq(courses_list, IsEnglish) \o SortByHoursDesc(d, SelectSeq(courses_list, NotEnglish))

\* list(set(group ids of the course)): small ints come out in increasing order
groups_with_course(d, course_id) ==
    SetToSortedSeq({ d.assignments[i].group_id :
                       i \in { j \in DOMAIN d.assignments : d.assignments[j].course_id = course_id } })

RECURSIVE TasksFrom(_, _, _)
TasksFrom(d, order, ci) ==
    IF ci > Len(order) THEN << >>
    ELSE LET gs == groups_with_course(d, order[ci])
         IN [ k \in 1..Len(gs) |-> << order[ci], gs[k] >> ] \o TasksFrom(d, order, ci + 1)

\* the (course, group) calls of the first pass, in order
FirstPassTasks(d) == TasksFrom(d, sorted_courses(d), 1)

\* faulty variant: the placed hours are not counted, every course looks empty
CoursesAssigned_Empty(schedule) == EmptyDict

\* courses_assigned of the verification pass: hour entries per course id
CoursesAssigned(schedule) ==
    [ c \in { schedule[i].course_id : i \in DOMAIN schedule } |->
        Cardinality({ i \in DOMAIN schedule : schedule[i].course_id = c }) ]

\* where the orchestrator continues when a force_assign call returns
AfterCall(o) ==
    IF o.phase = "first" THEN [ o EXCEPT !.ti = @ + 1 ] ELSE [ o EXCEPT !.va = @ + 1 ]

PcAfterCall(o) == IF o.phase = "first" THEN "orch" ELSE "vassign"

\* faulty variant: the call goes on when the professor has no room
EnterCall_NoRoomCheck(course, group_id, is_english, block_durations, max_attempts) ==
    IF get_professor_for_group_course(D, group_id, course.id) = None
    THEN /\ pc' = PcAfterCall(orch)
         /\ orch' = AfterCall(orch)
         /\ frame' = NoFrame
    ELSE /\ pc' = IF is_english /\ course.max_block_duration = 1 THEN "eng" ELSE "block"
         /\ frame' = [ course_id |-> course.id, group_id |-> group_id,
                       is_english |-> is_english, block_durations |-> block_durations,
                       max_attempts |-> max_attempts,
                       fixed_hour |-> IF is_english
                                      THEN get_fixed_hour_for_course(global_tracker, group_id, course.id)
                                      ELSE NoHour,
                       block_idx |-> 1, attempts |-> 0, blocks_assigned |-> 0 ]
         /\ UNCHANGED orch

\* the head of force_assign_with_displacement: lookups, fixed hour, dispatch
EnterCall(course, group_id, is_english, block_durations, max_attempts) ==
    LET prof_id == get_professor_for_group_course(D, group_id, course.id)
        room_id == get_professor_room(D, prof_id)
    IN IF prof_id = None \/ room_id = None
       THEN /\ pc' = PcAfterCall(orch)
            /\ orch' = AfterCall(orch)
            /\ frame' = NoFrame
       ELSE /\ pc' = IF is_english /\ course.max_block_duration = 1 THEN "eng" ELSE "block"
            /\ frame' = [ course_id |-> course.id, group_id |-> group_id,
                          is_english |-> is_english, block_durations |-> block_durations,
                          max_attempts |-> max_attempts,
                          fixed_hour |-> IF is_english
                                         THEN get_fixed_hour_for_course(global_tracker, group_id, course.id)
                                         ELSE NoHour,
                          block_idx |-> 1, attempts |-> 0, blocks_assigned |-> 0 ]
            /\ UNCHANGED orch

\* the call returns to the orchestrator
ReturnToOrch ==
    /\ pc' = PcAfterCall(orch)
    /\ orch' = AfterCall(orch)
    /\ frame' = NoFrame
    /\ scan' = NoScan

Init ==
    /\ scn \in DOMAIN Scenarios
    /\ all_schedules = [ g \in Range(D.groups) |-> << >> ]
    /\ global_tracker = EmptyTracker
    /\ room_usage = EmptyDict
    /\ pc = "orch"
    /\ orch = [ phase |-> "first", ti |-> 1, vg |-> 0, va |-> 0, courses_assigned |-> EmptyDict ]
    /\ frame = NoFrame
    /\ scan = NoScan
    /\ calc = NoCalc
    /\ ep = NoEndpoint
    /\ undo = << >>

\* all_schedules[group_id] is read for a group that is not among its keys
NoScheduleFor(group_id) == group_id \notin DOMAIN all_schedules

\* the KeyError of all_schedules[group_id][hour_id] = ... : nothing was
\* written yet, the exception leaves generate_schedule_for_all_groups
RaiseKeyError ==
    /\ pc' = "raised"
    /\ UNCHANGED << all_schedules, global_tracker, room_usage, orch, frame, scan >>

\* first pass: the next (course, group) of the priority order
FirstPassCall ==
    /\ pc = "orch"
    /\ orch.ti <= Len(FirstPassTasks(D))
    /\ LET task == FirstPassTasks(D)[orch.ti]
           course == D.courses[task[1]]
       IN EnterCall(course, task[2], course.english, calculate_course_blocks(course), MaxAttempts)
    /\ UNCHANGED << scn, calc, ep, undo, all_schedules, global_tracker, room_usage, scan >>

\* the first pass is over: the verification pass starts with the first group
BeginVerification ==
    /\ pc = "orch"
    /\ orch.ti > Len(FirstPassTasks(D))
    /\ pc' = "vgroup"
    /\ orch' = [ orch EXCEPT !.phase = "verify", !.vg = 1 ]
    /\ UNCHANGED << scn, calc, ep, undo, all_schedules, global_tracker, room_usage, frame, scan >>

\* verification pass, per group: count the placed hours of each course
VerifyGroup ==
    /\ pc = "vgroup"
    /\ orch.vg <= Len(D.groups)
    /\ pc' = "vassign"
    /\ orch' = [ orch EXCEPT !.va = 1,
                             !.courses_assigned = CoursesAssigned(all_schedules[D.groups[orch.vg]]) ]
    /\ UNCHANGED << scn, calc, ep, undo, all_schedules, global_tracker, room_usage, frame, scan >>

\* verification pass, per assignment: retry a deficit with one-hour blocks
VerifyAssignment ==
    /\ pc = "vassign"
    /\ UNCHANGED << scn, calc, ep, undo, all_schedules, global_tracker, room_usage, scan >>
    /\ IF orch.va > Len(D.assignments)
       THEN /\ pc' = "vgroup"
            /\ orch' = [ orch EXCEPT !.vg = @ + 1, !.va = 0, !.courses_assigned = EmptyDict ]
            /\ UNCHANGED frame
       ELSE LET a == D.assignments[orch.va]
                known == a.course_id \in DOMAIN D.courses
                assigned == IF a.course_id \in DOMAIN orch.courses_assigned
                            THEN orch.courses_assigned[a.course_id] ELSE 0
            IN IF a.group_id = D.groups[orch.vg] /\ known
                  /\ assigned < D.courses[a.course_id].weekly_hours
               THEN LET course == D.courses[a.course_id]
                        missing == course.weekly_hours - assigned
                    IN EnterCall(course, a.group_id, course.english,
                                 [ i \in 1..missing |-> 1 ], VerifyAttempts)
               ELSE /\ pc' = "vassign"
                    /\ orch' = [ orch EXCEPT !.va = @ + 1 ]
                    /\ UNCHANGED frame

\* every group was verified: the schedules are returned
Finish ==
    /\ pc = "vgroup"
    /\ orch.vg > Len(D.groups)
    /\ pc' = "done"
    /\ UNCHANGED << scn, calc, ep, undo, all_schedules, global_tracker, room_usage, orch, frame, scan >>

(* ---------------------------------------------------------------------- *)
(* Generic force-assign loop                                                *)
(* ---------------------------------------------------------------------- *)

FrameCourse == D.courses[frame.course_id]

FrameProf == get_professor_for_group_course(D, frame.group_id, frame.course_id)

FrameRoom == get_professor_room(D, FrameProf)

\* days of the shuffled list on which the direct search finds a position
DirectDays ==
    { day \in D.days :
        /\ ~DaySkipped(global_tracker, FrameCourse, frame.group_id, day)
        /\ find_all_valid_positions(D, global_tracker, room_usage, FrameCourse, frame.group_id,
                                    frame.block_durations[frame.block_idx], day,
                                    frame.is_english, frame.fixed_hour) # << >> }

\* the frame after block block_idx was placed at pos
FramePlaced(pos) ==
    [ frame EXCEPT !.block_idx = @ + 1, !.attempts = 0, !.blocks_assigned = @ + 1,
                   !.fixed_hour = IF frame.is_english /\ frame.fixed_hour = NoHour
                                  THEN pos.first_hour ELSE @ ]

\* faulty variant: the first hour is recorded for any course
WithFixedHour_AnyCourse(t, pos) ==
    IF frame.fixed_hour = NoHour
    THEN set_fixed_hour_for_course(t, frame.group_id, frame.course_id, pos.first_hour)
    ELSE t

\* the tracker after the fixed hour of a language course was recorded
WithFixedHour(t, pos) ==
    IF frame.is_english /\ frame.fixed_hour = NoHour
    THEN set_fixed_hour_for_course(t, frame.group_id, frame.course_id, pos.first_hour)
    ELSE t

\* all blocks were tried: the call returns
FinishBlocks ==
    /\ pc = "block"
    /\ frame.block_idx > Len(frame.block_durations)
    /\ ReturnToOrch
    /\ UNCHANGED << scn, calc, ep, undo, all_schedules, global_tracker, room_usage >>

\* max_attempts rounds failed for the block: it is skipped
SkipBlock ==
    /\ pc = "block"
    /\ frame.block_idx <= Len(frame.block_durations)
    /\ frame.attempts >= frame.max_attempts
    /\ frame' = [ frame EXCEPT !.block_idx = @ + 1, !.attempts = 0 ]
    /\ UNCHANGED << scn, calc, ep, undo, all_schedules, global_tracker, room_usage, pc, orch, scan >>

\* one round finds a free position on the first day of the shuffled order
\* that has one, and takes a random position of that day
DirectPlace ==
    /\ pc = "block"
    /\ frame.block_idx <= Len(frame.block_durations)
    /\ frame.attempts < frame.max_attempts
    /\ \E day \in DirectDays :
         \E pos \in Range(find_all_valid_positions(D, global_tracker, room_usage, FrameCourse,
                              frame.group_id, frame.block_durations[frame.block_idx], day,
                              frame.is_english, frame.fixed_hour)) :
            IF NoScheduleFor(frame.group_id)
            THEN RaiseKeyError
            ELSE LET st == PlaceBlock(Cur, FrameCourse, frame.group_id, frame.block_idx, pos, day)
                 IN /\ all_schedules' = st.s
                    /\ global_tracker' = WithFixedHour(st.t, pos)
                    /\ room_usage' = st.r
                    /\ frame' = FramePlaced(pos)
                    /\ UNCHANGED << pc, orch, scan >>
    /\ UNCHANGED << scn, calc, ep, undo >>

\* faulty variant: the round is not counted
BeginDisplacement_NotCounted ==
    /\ pc = "block"
    /\ frame.block_idx <= Len(frame.block_durations)
    /\ frame.attempts < frame.max_attempts
    /\ DirectDays = {}
    /\ \E days \in Perms(D.days) :
         scan' = [ NoScan EXCEPT !.days = days, !.di = 1, !.start_idx = 0 ]
    /\ pc' = "scan"
    /\ UNCHANGED << scn, calc, ep, undo, all_schedules, global_tracker, room_usage, orch, frame >>

\* one round finds no free position: the displacement loops start over the
\* same shuffled day list
BeginDisplacement ==
    /\ pc = "block"
    /\ frame.block_idx <= Len(frame.block_durations)
    /\ frame.attempts < frame.max_attempts
    /\ DirectDays = {}
    /\ \E days \in Perms(D.days) :
         scan' = [ NoScan EXCEPT !.days = days, !.di = 1, !.start_idx = 0 ]
    /\ frame' = [ frame EXCEPT !.attempts = @ + 1 ]
    /\ pc' = "scan"
    /\ UNCHANGED << scn, calc, ep, undo, all_schedules, global_tracker, room_usage, orch >>

\* the displacement loops ran out of days: the round is over
EndRound ==
    /\ pc = "scan"
    /\ scan.di > Len(scan.days)
    /\ pc' = "block"
    /\ scan' = NoScan
    /\ UNCHANGED << scn, calc, ep, undo, all_schedules, global_tracker, room_usage, orch, frame >>

\* faulty variant: the blocks of language courses stay in the list of
\* movable conflicts
ScanWindow_LanguageMovable ==
    /\ pc = "scan"
    /\ scan.di <= Len(scan.days)
    /\ UNCHANGED << scn, calc, ep, undo, all_schedules, global_tracker, room_usage, orch, frame >>
    /\ LET day == scan.days[scan.di]
           day_slots == D.slots_by_day[day]
           duration == frame.block_durations[frame.block_idx]
       IN IF \/ scan.start_idx = 0 /\ DaySkipped(global_tracker, FrameCourse, frame.group_id, day)
             \/ scan.start_idx > Len(day_slots) - duration
          THEN /\ scan' = [ scan EXCEPT !.di = @ + 1, !.start_idx = 0 ]
               /\ pc' = "scan"
          ELSE LET consecutive == Window(day_slots, scan.start_idx, duration)
                   slot_ids == SlotIds(consecutive)
                   conflicts == get_conflicting_blocks(D, all_schedules, slot_ids)
                   movable == conflicts
               IN IF /\ is_professor_available_at_slots(D, FrameProf, slot_ids)
                     /\ ~(frame.is_english /\ frame.fixed_hour # NoHour
                          /\ consecutive[1].start_time # frame.fixed_hour)
                     /\ movable # << >>
                  THEN /\ scan' = [ scan EXCEPT !.movable = movable, !.mi = 1 ]
                       /\ pc' = "reloc"
                  ELSE /\ scan' = [ scan EXCEPT !.start_idx = @ + 1 ]
                       /\ pc' = "scan"

\* one step of the displacement loops: skip the day, leave the day, skip the
\* window, or collect the movable conflicts of the window
ScanWindow ==
    /\ pc = "scan"
    /\ scan.di <= Len(scan.days)
    /\ UNCHANGED << scn, calc, ep, undo, all_schedules, global_tracker, room_usage, orch, frame >>
    /\ LET day == scan.days[scan.di]
           day_slots == D.slots_by_day[day]
           duration == frame.block_durations[frame.block_idx]
       IN IF \/ scan.start_idx = 0 /\ DaySkipped(global_tracker, FrameCourse, frame.group_id, day)
             \/ scan.start_idx > Len(day_slots) - duration
          THEN /\ scan' = [ scan EXCEPT !.di = @ + 1, !.start_idx = 0 ]
               /\ pc' = "scan"
          ELSE LET consecutive == Window(day_slots, scan.start_idx, duration)
                   slot_ids == SlotIds(consecutive)
                   conflicts == get_conflicting_blocks(D, all_schedules, slot_ids)
                   NotEnglish(c) == ~c.is_english
                   movable == SelectSeq(conflicts, NotEnglish)
               IN IF /\ is_professor_available_at_slots(D, FrameProf, slot_ids)
                     /\ ~(frame.is_english /\ frame.fixed_hour # NoHour
                          /\ consecutive[1].start_time # frame.fixed_hour)
                     /\ movable # << >>
                  THEN /\ scan' = [ scan EXCEPT !.movable = movable, !.mi = 1 ]
                       /\ pc' = "reloc"
                  ELSE /\ scan' = [ scan EXCEPT !.start_idx = @ + 1 ]
                       /\ pc' = "scan"

(* ---------------------------------------------------------------------- *)
(* Language-Course Placer                                                   *)
(* ---------------------------------------------------------------------- *)

\* faulty variant: any run of num_days available days is a sequence, the
\* weekday indices are not compared
get_consecutive_day_sequences_AnyGap(days_list, num_days) ==
    LET IsAvailable(day) == day \in days_list
        available_days == SelectSeq(day_order, IsAvailable)
    IN [ k \in 1..(Len(available_days) - num_days + 1) |->
           [ j \in 1..num_days |-> available_days[k - 1 + j] ] ]

\* faulty variant: one absent weekday between two days of a run is tolerated
get_consecutive_day_sequences_GapOfTwo(days_list, num_days) ==
    LET IsAvailable(day) == day \in days_list
        available_days == SelectSeq(day_order, IsAvailable)
        Index(day) == CHOOSE i \in DOMAIN day_order : day_order[i] = day
        Seq_(i) == [ j \in 1..num_days |-> available_days[i + j] ]
        starts == { i \in 0..(Len(available_days) - num_days) :
                      \A j \in 1..(num_days - 1) : Index(Seq_(i)[j + 1]) - Index(Seq_(i)[j]) <= 2 }
        ordered == SetToSortedSeq(starts)
    IN [ k \in 1..Len(ordered) |-> Seq_(ordered[k]) ]

\* get_consecutive_day_sequences(days_list, num_days), in its order
get_consecutive_day_sequences(days_list, num_days) ==
    LET IsAvailable(day) == day \in days_list
        available_days == SelectSeq(day_order, IsAvailable)
        Index(day) == CHOOSE i \in DOMAIN day_order : day_order[i] = day
        Seq_(i) == [ j \in 1..num_days |-> available_days[i + j] ]
        starts == { i \in 0..(Len(available_days) - num_days) :
                      \A j \in 1..(num_days - 1) : Index(Seq_(i)[j + 1]) - Index(Seq_(i)[j]) = 1 }
        ordered == SetToSortedSeq(starts)
    IN [ k \in 1..Len(ordered) |-> Seq_(ordered[k]) ]

\* slot_at_hour = None
NoSlot == [ id |-> None, day |-> "", start_time |-> NoHour ]

\* the first slot of the day that starts at hour, or None
SlotAtHour(d, day, hour) ==
    LET day_slots == d.slots_by_day[day]
        idx == { i \in DOMAIN day_slots : day_slots[i].start_time = hour }
    IN IF idx = {} THEN NoSlot ELSE day_slots[CHOOSE i \in idx : \A j \in idx : i <= j]

\* the start hours of the days of a sequence
HoursOfSeq(d, seq) ==
    UNION { { d.slots_by_day[seq[k]][i].start_time : i \in DOMAIN d.slots_by_day[seq[k]] } :
            k \in DOMAIN seq }

\* every day of seq has a slot at hour that is free for professor, group, room
SeqHourFree(d, t, ru, seq, hour, prof_id, room_id, group_id, check_availability) ==
    \A k \in DOMAIN seq :
        LET slot == SlotAtHour(d, seq[k], hour)
        IN /\ slot # NoSlot
           /\ check_availability => is_professor_available_at_slots(d, prof_id, << slot.id >>)
           /\ can_assign_professor(t, prof_id, << slot.id >>)
           /\ can_assign_group(t, group_id, << slot.id >>)
           /\ is_room_available(ru, room_id, << slot.id >>)

\* faulty variant: the commit loop stops one block short
CommitSeq_DropLast(d, st, course, group_id, prof_id, room_id, seq_hour, block_num) ==
    IF block_num >= Len(seq_hour[1]) THEN st
    ELSE LET slot == SlotAtHour(d, seq_hour[1][block_num], seq_hour[2])
             t1 == assign(st.t, prof_id, group_id, << slot.id >>, course.id)
         IN [ s |-> [ st.s EXCEPT ![group_id] =
                        DictSet(@, HourId(group_id, course.id, block_num, 0),
                                slot.id, room_id, course.id) ],
              t |-> add_day_for_course(t1, group_id, course.id, seq_hour[1][block_num]),
              r |-> mark_room_used(st.r, room_id, << slot.id >>) ]

RECURSIVE CommitSeq(_, _, _, _, _, _, _, _)
\* the loop committing one one-hour block per day of seq, block ids 1..N
CommitSeq(d, st, course, group_id, prof_id, room_id, seq_hour, block_num) ==
    LET seq == seq_hour[1]
        hour == seq_hour[2]
    IN IF block_num > Len(seq) THEN st
       ELSE LET slot == SlotAtHour(d, seq[block_num], hour)
                pos == [ slot_ids |-> << slot.id >>, room_id |-> room_id, prof_id |-> prof_id ]
                t1 == assign(st.t, prof_id, group_id, pos.slot_ids, course.id)
                next == [ s |-> [ st.s EXCEPT ![group_id] =
                                    DictSet(@, HourId(group_id, course.id, block_num, 0),
                                            slot.id, room_id, course.id) ],
                          t |-> add_day_for_course(t1, group_id, course.id, seq[block_num]),
                          r |-> mark_room_used(st.r, room_id, pos.slot_ids) ]
            IN CommitSeq(d, next, course, group_id, prof_id, room_id, seq_hour, block_num + 1)

\* the state after all N placements and the fixed hour
EnglishCommitted(seq, hour) ==
    LET st == CommitSeq(D, Cur, FrameCourse, frame.group_id, FrameProf, FrameRoom,
                        << seq, hour >>, 1)
    IN [ st EXCEPT !.t = IF frame.fixed_hour = NoHour
                         THEN set_fixed_hour_for_course(@, frame.group_id, frame.course_id, hour)
                         ELSE @ ]

\* the hours the direct search tries for a sequence
HoursToTry(seq) ==
    IF frame.fixed_hour # NoHour THEN { frame.fixed_hour } ELSE HoursOfSeq(D, seq)

\* the hours of seq at which the direct search succeeds
FreeHours(seq) ==
    { hour \in HoursToTry(seq) :
        SeqHourFree(D, global_tracker, room_usage, seq, hour, FrameProf, FrameRoom,
                    frame.group_id, TRUE) }

\* the placer starts: no run of N consecutive days fails, else the
\* sequences are shuffled once
EnglishStart ==
    /\ pc = "eng"
    /\ UNCHANGED << scn, calc, ep, undo, all_schedules, global_tracker, room_usage >>
    /\ LET sequences == get_consecutive_day_sequences(D.days, Len(frame.block_durations))
       IN IF sequences = << >>
          THEN ReturnToOrch
          ELSE /\ \E order \in Perms(DOMAIN sequences) :
                    scan' = [ NoScan EXCEPT !.sequences = [ i \in DOMAIN order |-> sequences[order[i]] ] ]
               /\ pc' = "engtry"
               /\ UNCHANGED << orch, frame >>

\* max_attempts outer rounds are used up: the placer fails
EnglishGiveUp ==
    /\ pc = "engtry"
    /\ frame.attempts >= frame.max_attempts
    /\ ReturnToOrch
    /\ UNCHANGED << scn, calc, ep, undo, all_schedules, global_tracker, room_usage >>

\* the direct search of a round succeeds: the first sequence with a free
\* hour, at any of its free hours (the hours are shuffled)
EnglishDirect ==
    /\ pc = "engtry"
    /\ frame.attempts < frame.max_attempts
    /\ \E i \in DOMAIN scan.sequences :
         /\ FreeHours(scan.sequences[i]) # {}
         /\ \A j \in 1..(i - 1) : FreeHours(scan.sequences[j]) = {}
         /\ \E hour \in FreeHours(scan.sequences[i]) :
              IF NoScheduleFor(frame.group_id)
              THEN RaiseKeyError
              ELSE LET st == EnglishCommitted(scan.sequences[i], hour)
                   IN /\ all_schedules' = st.s
                      /\ global_tracker' = st.t
                      /\ room_usage' = st.r
                      /\ ReturnToOrch
    /\ UNCHANGED << scn, calc, ep, undo >>

\* the direct search of a round fails: the displacement loops start;
\* hours_to_try is what the last sequence left in it
EnglishBeginDisplacement ==
    /\ pc = "engtry"
    /\ frame.attempts < frame.max_attempts
    /\ \A i \in DOMAIN scan.sequences : FreeHours(scan.sequences[i]) = {}
    /\ \E hours \in Perms(HoursToTry(scan.sequences[Len(scan.sequences)])) :
         scan' = [ scan EXCEPT !.hours_to_try = hours, !.si = 1, !.hi = 1,
                               !.movable = << >>, !.mi = 0 ]
    /\ frame' = [ frame EXCEPT !.attempts = @ + 1 ]
    /\ pc' = "engscan"
    /\ UNCHANGED << scn, calc, ep, undo, all_schedules, global_tracker, room_usage, orch >>

RECURSIVE EnglishConflicts(_, _, _, _, _, _)
\* conflicts_to_move over the days of seq, or "no" when the pair cannot work
EnglishConflicts(d, schedules, seq, hour, prof_id, k) ==
    IF k > Len(seq) THEN [ can |-> TRUE, conflicts |-> << >> ]
    ELSE LET slot == SlotAtHour(d, seq[k], hour)
         IN IF slot = NoSlot \/ ~is_professor_available_at_slots(d, prof_id, << slot.id >>)
            THEN [ can |-> FALSE, conflicts |-> << >> ]
            ELSE LET here == get_conflicting_blocks(d, schedules, << slot.id >>)
                     rest == EnglishConflicts(d, schedules, seq, hour, prof_id, k + 1)
                 IN IF \E i \in DOMAIN here : here[i].is_english
                    THEN [ can |-> FALSE, conflicts |-> << >> ]
                    ELSE [ can |-> rest.can, conflicts |-> here \o rest.conflicts ]

\* the displacement loops of a round are over: next round
EnglishEndRound ==
    /\ pc = "engscan"
    /\ scan.si > Len(scan.sequences)
    /\ pc' = "engtry"
    /\ UNCHANGED << scn, calc, ep, undo, all_schedules, global_tracker, room_usage, orch, frame, scan >>

\* one (sequence, hour) pair of the displacement loops
EnglishScan ==
    /\ pc = "engscan"
    /\ scan.si <= Len(scan.sequences)
    /\ UNCHANGED << scn, calc, ep, undo, all_schedules, global_tracker, room_usage, orch, frame >>
    /\ LET target_hours == IF frame.fixed_hour # NoHour
                           THEN << frame.fixed_hour >> ELSE scan.hours_to_try
       IN IF scan.hi > Len(target_hours)
          THEN /\ scan' = [ scan EXCEPT !.si = @ + 1, !.hi = 1 ]
               /\ pc' = "engscan"
          ELSE LET found == EnglishConflicts(D, all_schedules, scan.sequences[scan.si],
                                             target_hours[scan.hi], FrameProf, 1)
               IN IF found.can /\ found.conflicts # << >>
                  THEN /\ scan' = [ scan EXCEPT !.movable = found.conflicts, !.mi = 1 ]
                       /\ pc' = "reloc"
                  ELSE /\ scan' = [ scan EXCEPT !.hi = @ + 1 ]
                       /\ pc' = "engscan"

(* ---------------------------------------------------------------------- *)
(* Displacement steps shared by the generic loop and the language placer    *)
(* ---------------------------------------------------------------------- *)

\* the running call is inside assign_english_consecutive_days
InEnglishPlacer == frame.is_english /\ FrameCourse.max_block_duration = 1

\* the loops go on with the next window (generic) or hour (language placer)
ScanNext ==
    IF InEnglishPlacer
    THEN /\ pc' = "engscan"
         /\ scan' = [ scan EXCEPT !.hi = @ + 1, !.movable = << >>, !.mi = 0 ]
    ELSE /\ pc' = "scan"
         /\ scan' = [ scan EXCEPT !.start_idx = @ + 1, !.movable = << >>, !.mi = 0 ]

\* try_relocate_block on the next conflict of the window
Relocate ==
    /\ pc = "reloc"
    /\ \E o \in try_relocate_block(D, Cur, scan.movable[scan.mi]) :
         /\ all_schedules' = o.st.s
         /\ global_tracker' = o.st.t
         /\ room_usage' = o.st.r
         /\ IF ~o.ok
            THEN ScanNext
            ELSE IF scan.mi < Len(scan.movable)
                 THEN /\ scan' = [ scan EXCEPT !.mi = @ + 1 ]
                      /\ pc' = "reloc"
                 ELSE /\ scan' = scan
                      /\ pc' = "commit"
    /\ UNCHANGED << scn, calc, ep, undo, orch, frame >>

\* every conflict was relocated: the placement is retried on the window's
\* day (generic: first position found) or on the sequence (language placer)
CommitAfterDisplacement ==
    /\ pc = "commit"
    /\ UNCHANGED << scn, calc, ep, undo >>
    /\ IF InEnglishPlacer
       THEN LET seq == scan.sequences[scan.si]
                hour == (IF frame.fixed_hour # NoHour
                         THEN << frame.fixed_hour >> ELSE scan.hours_to_try)[scan.hi]
            IN IF SeqHourFree(D, global_tracker, room_usage, seq, hour, FrameProf, FrameRoom,
                              frame.group_id, FALSE)
               THEN IF NoScheduleFor(frame.group_id)
                    THEN RaiseKeyError
                    ELSE LET st == EnglishCommitted(seq, hour)
                         IN /\ all_schedules' = st.s
                            /\ global_tracker' = st.t
                            /\ room_usage' = st.r
                            /\ ReturnToOrch
               ELSE /\ ScanNext
                    /\ UNCHANGED << all_schedules, global_tracker, room_usage, orch, frame >>
       ELSE LET day == scan.days[scan.di]
                positions == find_all_valid_positions(D, global_tracker, room_usage, FrameCourse,
                                 frame.group_id, frame.block_durations[frame.block_idx], day,
                                 frame.is_english, frame.fixed_hour)
            IN IF positions # << >>
               THEN IF NoScheduleFor(frame.group_id)
                    THEN RaiseKeyError
                    ELSE LET st == PlaceBlock(Cur, FrameCourse, frame.group_id, frame.block_idx,
                                              positions[1], day)
                         IN /\ all_schedules' = st.s
                            /\ global_tracker' = WithFixedHour(st.t, positions[1])
                            /\ room_usage' = st.r
                            /\ frame' = FramePlaced(positions[1])
                            /\ pc' = "block"
                            /\ scan' = NoScan
                            /\ UNCHANGED orch
               ELSE /\ ScanNext
                    /\ UNCHANGED << all_schedules, global_tracker, room_usage, orch, frame >>

(* ---------------------------------------------------------------------- *)
(* Specification                                                            *)
(* ---------------------------------------------------------------------- *)

Next ==
    \/ FirstPassCall
    \/ BeginVerification
    \/ VerifyGroup
    \/ VerifyAssignment
    \/ Finish
    \/ FinishBlocks
    \/ SkipBlock
    \/ DirectPlace
    \/ BeginDisplacement
    \/ EndRound
    \/ ScanWindow
    \/ Relocate
    \/ CommitAfterDisplacement
    \/ EnglishStart
    \/ EnglishGiveUp
    \/ EnglishDirect
    \/ EnglishBeginDisplacement
    \/ EnglishEndRound
    \/ EnglishScan

Spec == Init /\ [][Next]_vars

(* ---------------------------------------------------------------------- *)
(* The block decomposer run on its own, one loop iteration per step, on     *)
(* every course the Course class admits within the bounds                   *)
(* ---------------------------------------------------------------------- *)

\* Course: weekly_hours, min_block_duration, max_block_duration are conint(gt=0)
DecomposerCourses ==
    { MkCourse(1, FALSE, wh, mn, mx) :
        wh \in 1..MaxWeeklyHours, mn \in 1..MaxBlockDuration, mx \in 1..MaxBlockDuration }

InitBlocks ==
    /\ scn = 1
    /\ all_schedules = EmptyDict
    /\ global_tracker = EmptyTracker
    /\ room_usage = EmptyDict
    /\ pc = "calc"
    /\ orch = [ phase |-> "first", ti |-> 1, vg |-> 0, va |-> 0, courses_assigned |-> EmptyDict ]
    /\ frame = NoFrame
    /\ scan = NoScan
    /\ ep = NoEndpoint
    /\ undo = << >>
    /\ \E course \in DecomposerCourses :
         calc = [ course |-> course, remaining |-> course.weekly_hours, blocks |-> << >> ]

\* one iteration of `while remaining > 0`
CalcStep ==
    /\ pc = "calc"
    /\ calc.remaining > 0
    /\ LET block_dur == BlockDur(calc.course, calc.remaining)
       IN calc' = [ calc EXCEPT !.blocks = Append(@, block_dur), !.remaining = @ - block_dur ]
    /\ UNCHANGED << scn, ep, undo, all_schedules, global_tracker, room_usage, pc, orch, frame, scan >>

\* the loop is left and blocks is returned
CalcReturn ==
    /\ pc = "calc"
    /\ ~(calc.remaining > 0)
    /\ pc' = "calc_done"
    /\ UNCHANGED << scn, ep, undo, all_schedules, global_tracker, room_usage, orch, frame, scan, calc >>

NextBlocks ==
    \/ CalcStep
    \/ CalcReturn

SpecBlocks == InitBlocks /\ [][NextBlocks]_vars

(* ---------------------------------------------------------------------- *)
(* The /generate endpoint of main.py: validation, deletion of the old rows  *)
(* of horario_clases, the core, and the saving of the new rows.  The        *)
(* service is entered through the endpoint or through the core itself.      *)
(* ---------------------------------------------------------------------- *)

\* f"{id_hora_entera}:00:00": the hour is not padded
HoraStr(h) ==
    (IF h < 10 THEN << Digit(h) >> ELSE << Digit(h \div 10), Digit(h % 10) >>)
    \o << Colon, Digit(0), Digit(0), Colon, Digit(0), Digit(0) >>

\* a.professor_asignatura_id: the profesor_asignatura row of (professor, course)
ProfessorAsignaturaId(a) == << a.professor_id, a.course_id >>

MkRow(prof_asig, aula, grupo, dia, hora) ==
    [ id_profesor_asignatura |-> prof_asig, id_aula |-> aula, id_grupo |-> grupo,
      dia |-> dia, hora |-> hora ]

\* rows of horario_clases left by earlier runs, of group 1 and of a group 5
OldRows ==
    { MkRow(<< 1, 1 >>, 1, 1, 1, HoraStr(17)), MkRow(<< 1, 1 >>, 1, 1, 2, HoraStr(18)),
      MkRow(<< 2, 2 >>, 2, 5, 1, HoraStr(17)) }

\* the inputs fetch_all_data_for_solver hands to a request
EndpointScenarios == { 7, 8, 9, 10, 11 }

InitEndpoint ==
    /\ scn \in EndpointScenarios
    /\ all_schedules = EmptyDict
    /\ global_tracker = EmptyTracker
    /\ room_usage = EmptyDict
    /\ pc = "idle"
    /\ orch = [ phase |-> "first", ti |-> 1, vg |-> 0, va |-> 0, courses_assigned |-> EmptyDict ]
    /\ frame = NoFrame
    /\ scan = NoScan
    /\ calc = NoCalc
    /\ undo = << >>
    /\ \E rows \in SUBSET OldRows :
         ep = [ stage |-> "validate", rows |-> rows, found |-> rows, status |-> None,
                results |-> << >> ]

\* faulty variant: only the assignments are validated
MustReject_AssignmentsOnly(in) == in.assignments = << >>

\* `not data.get('professor_course_group_assignments')` or `not groups_to_process`
MustReject(in) == in.assignments = << >> \/ in.groups = << >>

\* step 2 of the request: HTTP 400 (after db.rollback(), which finds nothing
\* to undo) or on to the deletion
EndpointValidate ==
    /\ ep.stage = "validate"
    /\ ep' = IF MustReject(Scenarios[scn])
             THEN [ ep EXCEPT !.stage = "responded", !.status = 400 ]
             ELSE [ ep EXCEPT !.stage = "clean" ]
    /\ UNCHANGED << scn, calc, undo, all_schedules, global_tracker, room_usage, pc, orch, frame, scan >>

\* step 4: DELETE FROM horario_clases WHERE id_grupo IN (groups); commit
EndpointClean ==
    /\ ep.stage = "clean"
    /\ ep' = [ ep EXCEPT !.stage = "core",
                         !.rows = { r \in @ : r.id_grupo \notin Range(D.groups) } ]
    /\ UNCHANGED << scn, calc, undo, all_schedules, global_tracker, room_usage, pc, orch, frame, scan >>

\* step 5: generate_schedule_for_all_groups is called
EndpointInvokeCore ==
    /\ ep.stage = "core"
    /\ pc = "idle"
    /\ pc' = "orch"
    /\ all_schedules' = [ g \in Range(D.groups) |-> << >> ]
    /\ UNCHANGED << scn, calc, ep, undo, global_tracker, room_usage, orch, frame, scan >>

\* the positions of the assignments of (group, course)
AssignmentsFor(in, group_id, course_id) ==
    { i \in DOMAIN in.assignments :
        in.assignments[i].group_id = group_id /\ in.assignments[i].course_id = course_id }

\* next(a for a in assignments if ...): the first assignment of (group, course)
FirstAssignment(in, group_id, course_id) ==
    LET idx == AssignmentsFor(in, group_id, course_id)
    IN in.assignments[CHOOSE i \in idx : \A j \in idx : i <= j]

\* the entries of a schedule for which a row is inserted
Saved(in, group_id, schedule) ==
    LET CanSave(e) ==
            /\ \E i \in DOMAIN in.courses : in.courses[i].id = e.course_id
            /\ AssignmentsFor(in, group_id, e.course_id) # {}
    IN SelectSeq(schedule, CanSave)

\* the rows inserted for one group
RowsOfGroup(in, group_id, schedule) ==
    { MkRow(ProfessorAsignaturaId(FirstAssignment(in, group_id, e.course_id)),
            e.room_id, group_id, e.slot_id \div 1000, HoraStr(e.slot_id % 1000)) :
      e \in Range(Saved(in, group_id, schedule)) }

\* step 6: the rows of every group with a non-empty schedule are inserted
\* and committed, and the groups saved are returned (HTTP 200)
EndpointSave ==
    /\ ep.stage = "core"
    /\ pc = "done"
    /\ LET in == Scenarios[scn]
           HasSchedule(g) == g \in DOMAIN all_schedules /\ all_schedules[g] # << >>
           saved == SelectSeq(in.groups, HasSchedule)
       IN ep' = [ ep EXCEPT !.stage = "responded", !.status = 200,
                            !.rows = @ \cup UNION { RowsOfGroup(in, g, all_schedules[g]) :
                                                    g \in Range(saved) },
                            !.results = saved ]
    /\ UNCHANGED << scn, calc, undo, all_schedules, global_tracker, room_usage, pc, orch, frame, scan >>

\* `except Exception`: the core raised, db.rollback() and HTTP 500
EndpointFail ==
    /\ ep.stage = "core"
    /\ pc = "raised"
    /\ ep' = [ ep EXCEPT !.stage = "responded", !.status = 500 ]
    /\ UNCHANGED << scn, calc, undo, all_schedules, global_tracker, room_usage, pc, orch, frame, scan >>

NextService ==
    \/ Next
    \/ EndpointValidate
    \/ EndpointClean
    \/ EndpointInvokeCore
    \/ EndpointSave
    \/ EndpointFail

SpecService == (Init \/ InitEndpoint) /\ [][NextService]_vars

(* ---------------------------------------------------------------------- *)
(* The GroupScheduleTracker used on its own: assign calls on slots that are *)
(* free for the professor and the group, undone by unassign calls with the  *)
(* same arguments, the latest first                                         *)
(* ---------------------------------------------------------------------- *)

TrackerProfessors == { 1, 2 }

TrackerGroups == { 1, 2 }

TrackerCourses == { 1 }

TrackerSlotLists == { << 1017 >>, << 1018 >>, << 1017, 1018 >> }

InitTracker ==
    /\ scn = 1
    /\ all_schedules = EmptyDict
    /\ global_tracker = EmptyTracker
    /\ room_usage = EmptyDict
    /\ pc = "tracker"
    /\ orch = [ phase |-> "first", ti |-> 1, vg |-> 0, va |-> 0, courses_assigned |-> EmptyDict ]
    /\ frame = NoFrame
    /\ scan = NoScan
    /\ calc = NoCalc
    /\ ep = NoEndpoint
    /\ undo = << >>

\* tracker.assign(prof_id, group_id, slot_ids, course_id) on free slots
TrackerAssign ==
    /\ pc = "tracker"
    /\ Len(undo) < MaxUndo
    /\ \E prof_id \in TrackerProfessors, group_id \in TrackerGroups,
          slot_ids \in TrackerSlotLists, course_id \in TrackerCourses :
         /\ can_assign_professor(global_tracker, prof_id, slot_ids)
         /\ can_assign_group(global_tracker, group_id, slot_ids)
         /\ global_tracker' = assign(global_tracker, prof_id, group_id, slot_ids, course_id)
         /\ undo' = Append(undo, [ prof_id |-> prof_id, group_id |-> group_id,
                                   slot_ids |-> slot_ids, before |-> global_tracker ])
    /\ UNCHANGED << scn, calc, ep, all_schedules, room_usage, pc, orch, frame, scan >>

\* tracker.unassign(...) with the arguments of the latest assign not yet undone
TrackerUnassign ==
    /\ pc = "tracker"
    /\ undo # << >>
    /\ LET call == undo[Len(undo)]
       IN global_tracker' = unassign(global_tracker, call.prof_id, call.group_id, call.slot_ids)
    /\ undo' = SubSeq(undo, 1, Len(undo) - 1)
    /\ UNCHANGED << scn, calc, ep, all_schedules, room_usage, pc, orch, frame, scan >>

NextTracker ==
    \/ TrackerAssign
    \/ TrackerUnassign

SpecTracker == InitTracker /\ [][NextTracker]_vars

(* ---------------------------------------------------------------------- *)
(* find_all_valid_positions called on its own: one call on an index, a      *)
(* tracker and a room usage drawn from small sets; frame and scan hold the  *)
(* arguments of the call and the list it returned                           *)
(* ---------------------------------------------------------------------- *)

FinderScenarios == { 1, 3, 4, 6 }

FinderGroups == { 1, 2 }

FinderProfessors == { 1, 2 }

FinderDays == { "Lunes", "Martes", "Viernes" }

FinderBusySets == { {}, { 1017 }, { 1018, 1019 } }

FinderHours == { NoHour, TimeStr(17), TimeStr(18) }

\* a dict of busy slots: the keys of busy that have a slot, each slot -> v
FinderBusyDict(busy, v) ==
    [ k \in { x \in DOMAIN busy : busy[x] # {} } |-> [ s \in busy[k] |-> v ] ]

InitFinder ==
    /\ scn \in FinderScenarios
    /\ all_schedules = EmptyDict
    /\ \E pb \in [ FinderProfessors -> FinderBusySets ], gb \in [ FinderGroups -> FinderBusySets ],
          h \in FinderHours :
         global_tracker =
             [ prof_schedule |-> FinderBusyDict(pb, 1),
               group_schedule |-> FinderBusyDict(gb, 1),
               course_fixed_hour |->
                   [ k \in { x \in FinderGroups \X DOMAIN Data[scn].courses :
                               h # NoHour /\ Data[scn].courses[x[2]].english } |-> h ],
               group_course_days |-> EmptyDict ]
    /\ \E rb \in FinderBusySets :
         room_usage = [ r \in { x \in Range(Scenarios[scn].professor_rooms) : rb # {} } |-> rb ]
    /\ pc = "finder"
    /\ orch = [ phase |-> "first", ti |-> 1, vg |-> 0, va |-> 0, courses_assigned |-> EmptyDict ]
    /\ frame = NoFrame
    /\ scan = NoScan
    /\ calc = NoCalc
    /\ ep = NoEndpoint
    /\ undo = << >>

\* positions = find_all_valid_positions(course, group_id, duration, day, data,
\*                                      global_tracker, is_english, fixed_hour)
\* with is_english and fixed_hour as the callers compute them
FinderCall ==
    /\ pc = "finder"
    /\ \E course \in Range(D.courses), group_id \in FinderGroups,
          duration \in 1..MaxBlockDuration, day \in FinderDays :
         LET is_english == course.english
             fixed_hour == IF is_english
                           THEN get_fixed_hour_for_course(global_tracker, group_id, course.id)
                           ELSE NoHour
         IN /\ frame' = [ NoFrame EXCEPT !.course_id = course.id, !.group_id = group_id,
                                         !.is_english = is_english, !.fixed_hour = fixed_hour ]
            /\ scan' = [ day |-> day, duration |-> duration,
                         positions |-> find_all_valid_positions(D, global_tracker, room_usage,
                                           course, group_id, duration, day, is_english, fixed_hour) ]
    /\ pc' = "found"
    /\ UNCHANGED << scn, all_schedules, global_tracker, room_usage, orch, calc, ep, undo >>

NextFinder == FinderCall

SpecFinder == InitFinder /\ [][NextFinder]_vars

(* ---------------------------------------------------------------------- *)
(* Properties                                                               *)
(* ---------------------------------------------------------------------- *)

\* every hour entry of every group, with its group: <<group id, entry>>
Placed ==
    UNION { { << g, all_schedules[g][i] >> : i \in DOMAIN all_schedules[g] } : g \in DOMAIN all_schedules }

\* the same, by position, so that two entries are told apart by their keys
PlacedAt ==
    UNION { { << g, i >> : i \in DOMAIN all_schedules[g] } : g \in DOMAIN all_schedules }

EntryAt(x) == all_schedules[x[1]][x[2]]

\* the professor of an entry, resolved from (group, course)
ProfOf(g, e) == get_professor_for_group_course(D, g, e.course_id)

\* the input timeslot with an id
SlotOf(slot_id) == CHOOSE sl \in Range(Scenarios[scn].timeslots) : sl.id = slot_id

EntryDay(e) == SlotOf(e.slot_id).day

EntryHour(e) == HourOf(SlotOf(e.slot_id).start_time)

\* the unavailability set of a professor in the input
UnavailableOf(p) ==
    UNION { q.availability : q \in { r \in Range(Scenarios[scn].professors) : r.id = p } }

\* an entry written by a relocation carries a random block id
IsRelocated(e) == e.hour_id[3] \in RandIds

\* the entries of a group under one block key
BlockEntries(g, key) == { e \in Range(all_schedules[g]) : BlockKey(e.hour_id) = key }

BlockKeysOf(g) == { BlockKey(e.hour_id) : e \in Range(all_schedules[g]) }

\* C1: group exclusivity - in every state, no two distinct hour-slot keys of
\* a group's schedule carry the same timeslot id
C1_GroupExclusivity ==
    \A g \in DOMAIN all_schedules :
        \A i, j \in DOMAIN all_schedules[g] :
            i # j => all_schedules[g][i].slot_id # all_schedules[g][j].slot_id

\* a group holds an entry written by a relocation next to entries of another
\* course, in the verification pass
C1_Witness ==
    /\ orch.phase = "verify"
    /\ \E g \in DOMAIN all_schedules :
         \E e1, e2 \in Range(all_schedules[g]) :
            IsRelocated(e1) /\ e1.course_id # e2.course_id

\* C2: professor exclusivity - in every state, no two hour entries of any
\* groups taught by the same professor carry the same timeslot id
C2_ProfessorExclusivity ==
    \A x, y \in PlacedAt :
        (x # y /\ ProfOf(x[1], EntryAt(x)) = ProfOf(y[1], EntryAt(y)))
            => EntryAt(x).slot_id # EntryAt(y).slot_id

\* one professor teaches entries of two groups, one of them relocated
C2_Witness ==
    \E x, y \in Placed :
        /\ x[1] # y[1]
        /\ ProfOf(x[1], x[2]) = ProfOf(y[1], y[2])
        /\ IsRelocated(x[2])

\* C3: room exclusivity - in every state, no two hour entries that use the
\* same room carry the same timeslot id, also when professors share a room
C3_RoomExclusivity ==
    \A x, y \in PlacedAt :
        (x # y /\ EntryAt(x).room_id = EntryAt(y).room_id)
            => EntryAt(x).slot_id # EntryAt(y).slot_id

\* entries of two different professors use the same room on the same day
C3_Witness ==
    \E x, y \in Placed :
        /\ ProfOf(x[1], x[2]) # ProfOf(y[1], y[2])
        /\ x[2].room_id = y[2].room_id
        /\ EntryDay(x[2]) = EntryDay(y[2])

\* C4: professor availability - every hour entry present in any schedule has
\* a timeslot outside the unavailability set of the professor of its pair
C4_ProfessorAvailability ==
    \A x \in Placed : x[2].slot_id \notin UnavailableOf(ProfOf(x[1], x[2]))

\* a relocation placed an entry for a professor who has unavailable slots
C4_Witness ==
    \E x \in Placed : IsRelocated(x[2]) /\ UnavailableOf(ProfOf(x[1], x[2])) # {}

\* the hours of a set of entries lie on one day and are h, h+1, ..., h+d-1
Continuous(es) ==
    /\ \A e1, e2 \in es : EntryDay(e1) = EntryDay(e2)
    /\ LET hours == { EntryHour(e) : e \in es }
       IN /\ Cardinality(hours) = Cardinality(es)
          /\ \A h \in hours : (h - 1 \in hours) \/ (\A k \in hours : h <= k)

\* C5: block continuity - in every state, the hour entries of a group that
\* share a block key lie on one day at hours h, h+1, ..., h+d-1 without gap
C5_BlockContinuity ==
    \A g \in DOMAIN all_schedules :
        \A key \in BlockKeysOf(g) : Continuous(BlockEntries(g, key))

\* C6: block duration bounds - before the verification pass starts, every
\* placed block has between min_block_duration and max_block_duration hours
C6_BlockDurationBounds ==
    orch.phase = "first" =>
        \A g \in DOMAIN all_schedules :
            \A key \in BlockKeysOf(g) :
                LET n == Cardinality(BlockEntries(g, key))
                    course == D.courses[key[2]]
                IN course.min_block_duration <= n /\ n <= course.max_block_duration

\* C7: one session per day for short courses - in every state, the entries
\* of a (group, course) with max_block_duration = 1 lie on distinct days
C7_OneSessionPerDay ==
    \A x, y \in PlacedAt :
        ( /\ x # y
          /\ x[1] = y[1]
          /\ EntryAt(x).course_id = EntryAt(y).course_id
          /\ D.courses[EntryAt(x).course_id].max_block_duration = 1 )
            => EntryDay(EntryAt(x)) # EntryDay(EntryAt(y))

\* a (group, short course) has two sessions, one of them put there by a
\* relocation, while the verification pass runs
C7_Witness ==
    /\ orch.phase = "verify"
    /\ \E x, y \in Placed :
         /\ x # y
         /\ x[1] = y[1]
         /\ x[2].course_id = y[2].course_id
         /\ D.courses[x[2].course_id].max_block_duration = 1
         /\ ~D.courses[x[2].course_id].english
         /\ IsRelocated(x[2])

\* the fixed hour recorded for a pair, NoHour when none is
FixedHourOf(g, c) == get_fixed_hour_for_course(global_tracker, g, c)

\* C8 as stated: every hour entry of a (group, language course) starts at
\* the fixed hour recorded for the pair, whatever max_block_duration is
C8_Original ==
    \A x \in Placed :
        D.courses[x[2].course_id].english
            => SlotOf(x[2].slot_id).start_time = FixedHourOf(x[1], x[2].course_id)

\* C8 amended: for every (group, language course) the first hour of every
\* block (identifier H0) starts at the fixed hour recorded for the pair and
\* hour Hj of a block starts j hours later; with max_block_duration = 1
\* every entry of the pair starts at the fixed hour
C8_FixedHour ==
    \A x \in Placed :
        D.courses[x[2].course_id].english =>
            LET fixed == FixedHourOf(x[1], x[2].course_id)
            IN /\ fixed # NoHour
               /\ EntryHour(x[2]) = HourOf(fixed) + x[2].hour_id[4]
               /\ x[2].hour_id[4] = 0 => SlotOf(x[2].slot_id).start_time = fixed
               /\ D.courses[x[2].course_id].max_block_duration = 1
                    => SlotOf(x[2].slot_id).start_time = fixed

\* a language pair has blocks on two days, one of them of two hours
C8_Witness ==
    \E x, y, z \in Placed :
        /\ D.courses[x[2].course_id].english
        /\ x[1] = y[1] /\ y[1] = z[1]
        /\ x[2].course_id = y[2].course_id /\ y[2].course_id = z[2].course_id
        /\ x[2].hour_id[4] = 0 /\ y[2].hour_id[4] = 0 /\ z[2].hour_id[4] = 1
        /\ EntryDay(x[2]) # EntryDay(y[2])

\* C9: room binding - every hour entry has the room that the professor-room
\* map gives for the professor of its (group, course)
C9_RoomBinding ==
    \A x \in Placed :
        /\ ProfOf(x[1], x[2]) \in DOMAIN D.professor_rooms
        /\ x[2].room_id = D.professor_rooms[ProfOf(x[1], x[2])]

\* a relocated entry of a professor whose room id differs from the
\* professor id, next to an entry restored or kept at its first position
C9_Witness ==
    \E x, y \in Placed :
        /\ IsRelocated(x[2])
        /\ ~IsRelocated(y[2])
        /\ ProfOf(x[1], x[2]) # x[2].room_id

\* C10: window - every hour entry has a timeslot whose start hour h
\* satisfies 17 <= h < 22, although the input holds slots outside it
C10_Window ==
    \A x \in Placed : 17 <= EntryHour(x[2]) /\ EntryHour(x[2]) < 22

\* entries exist, one relocated, on an input with slots before 17 and after 22
C10_Witness ==
    /\ \E sl \in Range(Scenarios[scn].timeslots) : HourOf(sl.start_time) < 17
    /\ \E sl \in Range(Scenarios[scn].timeslots) : HourOf(sl.start_time) >= 22
    /\ \E x \in Placed : IsRelocated(x[2])

\* the decomposer has returned
CalcDone == pc = "calc_done"

\* C11: block decomposition bounds - for a course with weekly_hours > 0 and
\* 0 < min_block_duration <= max_block_duration, every element the
\* decomposer emits lies in [min_block_duration, max_block_duration], the
\* last element included
C11_BlockBounds ==
    (pc \in {"calc", "calc_done"}
       /\ calc.course.weekly_hours > 0
       /\ 0 < calc.course.min_block_duration
       /\ calc.course.min_block_duration <= calc.course.max_block_duration) =>
        \A i \in DOMAIN calc.blocks :
            /\ calc.course.min_block_duration <= calc.blocks[i]
            /\ calc.blocks[i] <= calc.course.max_block_duration

\* C12: block decomposition total - for every course with positive
\* weekly_hours, min and max block duration (min > max included) the loop
\* terminates (every iteration emits a positive block and never takes more
\* than remains, so it runs at most weekly_hours times) and the returned
\* elements are positive and sum to exactly weekly_hours
C12_BlockTotal ==
    pc \in {"calc", "calc_done"} =>
        /\ \A i \in DOMAIN calc.blocks : calc.blocks[i] > 0
        /\ calc.remaining >= 0
        /\ SumSeq(calc.blocks) + calc.remaining = calc.course.weekly_hours
        /\ Len(calc.blocks) <= calc.course.weekly_hours
        /\ CalcDone => /\ SumSeq(calc.blocks) = calc.course.weekly_hours
                       /\ calc.blocks = calculate_course_blocks(calc.course)

\* the decomposer returned several blocks for a course with min > max
C12_Witness ==
    /\ CalcDone
    /\ calc.course.min_block_duration > calc.course.max_block_duration
    /\ Len(calc.blocks) >= 2

\* C13: a course whose weekly_hours equals its max_block_duration decomposes
\* to exactly one block, of duration weekly_hours
C13_SingleBlock ==
    (CalcDone /\ calc.course.weekly_hours = calc.course.max_block_duration) =>
        calc.blocks = << calc.course.weekly_hours >>

\* the decomposer returned for a course of several hours with
\* weekly_hours = max_block_duration and a smaller min_block_duration
C13_Witness ==
    /\ CalcDone
    /\ calc.course.weekly_hours = calc.course.max_block_duration
    /\ calc.course.min_block_duration < calc.course.max_block_duration

\* the hour entries of a (group, course) pair
EntriesOf(g, c) ==
    IF g \in DOMAIN all_schedules
    THEN { e \in Range(all_schedules[g]) : e.course_id = c }
    ELSE {}

\* the same in the next state
EntriesOfNext(g, c) ==
    IF g \in DOMAIN all_schedules'
    THEN { e \in Range(all_schedules'[g]) : e.course_id = c }
    ELSE {}

\* position of a day in the week Lunes .. Domingo
DayIndex(day) == CHOOSE i \in DOMAIN day_order : day_order[i] = day

\* a step of the running assign_english_consecutive_days call
LanguagePlacerStep == pc \in {"eng", "engtry", "engscan", "reloc", "commit"} /\ InEnglishPlacer

\* the step on which the language placer commits its placements and returns True
LanguagePlacerSucceeds ==
    /\ LanguagePlacerStep
    /\ pc' \in {"orch", "vassign"}
    /\ all_schedules' # all_schedules

\* entries lie on n days adjacent in the week, one per day, at one start hour
OnAdjacentDaysAtOneHour(es, n) ==
    LET idx == { DayIndex(EntryDay(e)) : e \in es }
    IN /\ Cardinality(es) = n
       /\ Cardinality(idx) = n
       /\ \A i \in idx : (i - 1 \in idx) \/ (\A k \in idx : i <= k)
       /\ \A e1, e2 \in es :
            SlotOf(e1.slot_id).start_time = SlotOf(e2.slot_id).start_time

\* C14: language courses on consecutive days - whenever the language placer
\* succeeds for a (group, language course) with N blocks, the N hour entries
\* it adds lie on N days adjacent in the order Lunes .. Domingo (no weekday
\* skipped, also when a weekday is absent from the timeslots), all at one
\* identical start hour
C14_ConsecutiveDays ==
    [][ LanguagePlacerSucceeds =>
          OnAdjacentDaysAtOneHour(
              EntriesOfNext(frame.group_id, frame.course_id)
                  \ EntriesOf(frame.group_id, frame.course_id),
              Len(frame.block_durations)) ]_vars

\* a language pair holds its sessions on a week in which a weekday between
\* two days of the timeslots is absent
C14_Witness ==
    /\ \E i, j, k \in DOMAIN day_order :
         /\ i < j /\ j < k
         /\ day_order[i] \in D.days /\ day_order[j] \notin D.days /\ day_order[k] \in D.days
    /\ \E g \in DOMAIN all_schedules : \E c \in DOMAIN D.courses :
         /\ D.courses[c].english /\ D.courses[c].max_block_duration = 1
         /\ Cardinality(EntriesOf(g, c)) >= 2

\* the fixed hour recorded for a pair in the next state
FixedHourOfNext(g, c) == get_fixed_hour_for_course(global_tracker', g, c)

\* the running call returns to the orchestrator on this step
CallReturns == pc' \in {"orch", "vassign"}

\* C15: language placement is all-or-nothing - every step of a call of the
\* language placer for (group, course) with N blocks either leaves the hour
\* entries and the fixed hour of the pair as they are, or returns having
\* added exactly N entries at once (and the fixed hour is then recorded); the
\* pair never gains between 1 and N-1 entries, and a call that returns
\* without entries leaves an unset fixed hour unset
C15_AllOrNothing ==
    [][ LanguagePlacerStep =>
          LET before == EntriesOf(frame.group_id, frame.course_id)
              after == EntriesOfNext(frame.group_id, frame.course_id)
          IN \/ /\ after = before
                /\ FixedHourOfNext(frame.group_id, frame.course_id)
                     = FixedHourOf(frame.group_id, frame.course_id)
             \/ /\ before \subseteq after
                /\ Cardinality(after \ before) = Len(frame.block_durations)
                /\ CallReturns
                /\ FixedHourOfNext(frame.group_id, frame.course_id) # NoHour ]_vars

\* in the verification pass one group holds all sessions of a language
\* course while another group, whose call failed, holds none and has no
\* fixed hour
C15_Witness ==
    /\ orch.phase = "verify"
    /\ \E c \in DOMAIN D.courses : \E g1, g2 \in DOMAIN all_schedules :
         /\ D.courses[c].english /\ D.courses[c].max_block_duration = 1
         /\ << g1, c >> \in DOMAIN D.group_course_professor
         /\ << g2, c >> \in DOMAIN D.group_course_professor
         /\ Cardinality(EntriesOf(g1, c)) = Len(calculate_course_blocks(D.courses[c]))
         /\ Len(calculate_course_blocks(D.courses[c])) >= 2
         /\ EntriesOf(g2, c) = {}
         /\ FixedHourOf(g2, c) = NoHour

\* a one-hour block is placed by the generic loop during the verification pass
VerificationPlacement ==
    /\ orch.phase = "verify"
    /\ pc \in {"block", "commit"}
    /\ ~InEnglishPlacer
    /\ frame'.blocks_assigned = frame.blocks_assigned + 1

\* C16: verification pass fills deficits - each successful one-hour placement
\* of the verification pass for (group, course) raises the number of hour
\* entries of the pair by exactly one and leaves every entry the pair had
\* (those of the first pass among them) present and unchanged
C16_VerificationFills ==
    [][ VerificationPlacement =>
          /\ Cardinality(EntriesOfNext(frame.group_id, frame.course_id))
               = Cardinality(EntriesOf(frame.group_id, frame.course_id)) + 1
          /\ EntriesOf(frame.group_id, frame.course_id)
               \subseteq EntriesOfNext(frame.group_id, frame.course_id) ]_vars

\* the assignments that bind a (group, course) pair
AssignmentsOf(g, c) ==
    { i \in DOMAIN D.assignments :
        D.assignments[i].group_id = g /\ D.assignments[i].course_id = c }

\* the pairs of the input bound by exactly one assignment, course and group known
SinglyBoundPairs ==
    { gc \in DOMAIN D.group_course_professor :
        /\ Cardinality(AssignmentsOf(gc[1], gc[2])) = 1
        /\ gc[1] \in DOMAIN all_schedules
        /\ gc[2] \in DOMAIN D.courses }

\* C17: deficit is never negative - after all passes, every (group, course)
\* bound by exactly one assignment has at most weekly_hours hour entries in
\* the group's schedule
C17_DeficitNotNegative ==
    pc = "done" =>
        \A gc \in SinglyBoundPairs :
            Cardinality(EntriesOf(gc[1], gc[2])) <= D.courses[gc[2]].weekly_hours

\* the run is over and a pair holds exactly weekly_hours entries, one of
\* them a single hour added for a course whose blocks have at least 2 hours
C17_Witness ==
    /\ pc = "done"
    /\ \E gc \in SinglyBoundPairs :
         /\ Cardinality(EntriesOf(gc[1], gc[2])) = D.courses[gc[2]].weekly_hours
         /\ D.courses[gc[2]].min_block_duration >= 2
         /\ \E e \in EntriesOf(gc[1], gc[2]) :
              /\ ~IsRelocated(e)
              /\ Cardinality(BlockEntries(gc[1], BlockKey(e.hour_id))) = 1

\* the (group, course) pair has no professor, or its professor has no room
LacksProfessorOrRoom(g, c) ==
    \/ get_professor_for_group_course(D, g, c) = None
    \/ get_professor_room(D, get_professor_for_group_course(D, g, c)) = None

\* the pair force_assign_with_displacement is called for on the next step of
\* the orchestrator, << >> when the next step is no call
NextCallPair ==
    IF pc = "orch" /\ orch.ti <= Len(FirstPassTasks(D))
    THEN << FirstPassTasks(D)[orch.ti][2], FirstPassTasks(D)[orch.ti][1] >>
    ELSE IF pc = "vassign" /\ orch.va <= Len(D.assignments)
         THEN LET a == D.assignments[orch.va]
                  assigned == IF a.course_id \in DOMAIN orch.courses_assigned
                              THEN orch.courses_assigned[a.course_id] ELSE 0
              IN IF /\ a.group_id = D.groups[orch.vg]
                    /\ a.course_id \in DOMAIN D.courses
                    /\ assigned < D.courses[a.course_id].weekly_hours
                 THEN << a.group_id, a.course_id >>
                 ELSE << >>
         ELSE << >>

\* C18: missing professor or room is a clean skip - when the pair of a call
\* of force_assign_with_displacement has no professor, or the professor has
\* no room, the call returns at once: schedules, professor and group busy
\* maps, used days, fixed hours and room usage are unchanged, the pair has no
\* entry, and the orchestrator goes on with its next group or assignment
C18_CleanSkip ==
    [][ (NextCallPair # << >> /\ LacksProfessorOrRoom(NextCallPair[1], NextCallPair[2])) =>
          /\ all_schedules' = all_schedules
          /\ global_tracker' = global_tracker
          /\ room_usage' = room_usage
          /\ EntriesOfNext(NextCallPair[1], NextCallPair[2]) = {}
          /\ pc' = PcAfterCall(orch)
          /\ orch' = AfterCall(orch) ]_vars

\* the first pass went over a pair without professor and a pair whose
\* professor has no room, entries of other pairs are placed, and the
\* verification pass is about to retry one of the two pairs
C18_Witness ==
    /\ orch.phase = "verify"
    /\ \E gc \in DOMAIN D.group_course_professor :
         get_professor_for_group_course(D, gc[1], gc[2]) = None
    /\ \E gc \in DOMAIN D.group_course_professor :
         /\ get_professor_for_group_course(D, gc[1], gc[2]) # None
         /\ get_professor_room(D, get_professor_for_group_course(D, gc[1], gc[2])) = None
    /\ \E g \in DOMAIN all_schedules : all_schedules[g] # << >>
    /\ NextCallPair # << >>
    /\ LacksProfessorOrRoom(NextCallPair[1], NextCallPair[2])

\* a language course of N one-hour blocks for which the valid timeslots hold
\* no run of N consecutive weekdays
Infeasible(c) ==
    /\ c \in DOMAIN D.courses
    /\ D.courses[c].english
    /\ D.courses[c].max_block_duration = 1
    /\ LET n == Len(calculate_course_blocks(D.courses[c]))
       IN ~\E k \in DOMAIN day_order :
             \A j \in 0..(n - 1) :
                k + j \in DOMAIN day_order /\ day_order[k + j] \in D.days

\* the pairs of such a course that reach the language placer
InfeasiblePairs ==
    { gc \in DOMAIN D.group_course_professor :
        /\ Infeasible(gc[2])
        /\ gc[1] \in DOMAIN all_schedules
        /\ ~LacksProfessorOrRoom(gc[1], gc[2]) }

\* C19: infeasible language course fails cleanly - when the valid timeslots
\* hold no run of N consecutive weekdays for a language course of N one-hour
\* blocks, every call of the language placer for it (first pass and
\* verification pass) returns on its first step without changing schedules,
\* tracker or room usage, so no entry of another course is moved or removed;
\* the pair never has an entry and its deficit at the end is N
C19_InfeasibleLanguage ==
    [][ /\ (LanguagePlacerStep /\ Infeasible(frame.course_id)) =>
             /\ all_schedules' = all_schedules
             /\ global_tracker' = global_tracker
             /\ room_usage' = room_usage
             /\ CallReturns
        /\ \A gc \in InfeasiblePairs :
             /\ EntriesOfNext(gc[1], gc[2]) = {}
             /\ pc' = "done" =>
                  D.courses[gc[2]].weekly_hours - Cardinality(EntriesOfNext(gc[1], gc[2]))
                    = Len(calculate_course_blocks(D.courses[gc[2]])) ]_vars

\* the verification pass calls the language placer again for an infeasible
\* course while the group holds entries of other courses
C19_Witness ==
    /\ orch.phase = "verify"
    /\ pc = "eng"
    /\ Infeasible(frame.course_id)
    /\ \E e \in Range(all_schedules[frame.group_id]) : e.course_id # frame.course_id

\* C20: the core never raises - for every input, assignments whose course,
\* professor, professor-room entry or group is missing from its input
\* collection included, generate_schedule_for_all_groups runs to completion
\* and returns the schedule map; no run ends in an exception
C20_NeverRaises == pc # "raised"

\* the groups of the group list that no assignment names
IdleGroups == Range(D.groups) \ { D.assignments[i].group_id : i \in DOMAIN D.assignments }

\* C21: the schedule map has exactly one key per input group in every state
\* up to the one returned, and a group that appears in no assignment has an
\* empty schedule in every state: no step ever adds an entry to it
C21_IdleGroupEmpty ==
    /\ DOMAIN all_schedules = Range(D.groups)
    /\ \A g \in IdleGroups : all_schedules[g] = << >>

\* the run returned; a group without assignments stands next to a group that
\* holds a relocated block
C21_Witness ==
    /\ pc = "done"
    /\ IdleGroups # {}
    /\ \E g \in DOMAIN all_schedules : \E e \in Range(all_schedules[g]) : IsRelocated(e)

\* C22: empty input is fatal only at the caller.  Called directly with an
\* empty assignment list, the core does not raise and returns an empty
\* schedule for every group.  A /generate request whose input has no
\* assignments or no groups never leaves validation: it is answered with
\* HTTP 400 with the rows of horario_clases as the request found them and
\* without the core having been invoked
C22_EmptyInput ==
    /\ (ep.stage = "none" /\ D.assignments = << >>) =>
           /\ pc # "raised"
           /\ pc = "done" =>
                  /\ DOMAIN all_schedules = Range(D.groups)
                  /\ \A g \in DOMAIN all_schedules : all_schedules[g] = << >>
    /\ (ep.stage # "none" /\ (D.assignments = << >> \/ D.groups = << >>)) =>
           /\ ep.stage \in { "validate", "responded" }
           /\ ep.stage = "responded" => ep.status = 400
           /\ ep.rows = ep.found
           /\ pc = "idle"

\* a request without groups was answered while rows of earlier runs exist
C22_Witness ==
    /\ ep.stage = "responded"
    /\ ep.status = 400
    /\ D.groups = << >>
    /\ D.assignments # << >>
    /\ ep.found # {}

\* the core returned on an empty assignment list
C22_CoreReturned ==
    /\ ep.stage = "none"
    /\ pc = "done"
    /\ D.assignments = << >>
    /\ D.groups # << >>

\* the call of generate_schedule_for_all_groups is over
Terminated == pc \in { "done", "raised" }

\* the hour entries a step puts into the schedules, with their groups
MovedIn == Placed' \ Placed

\* a try_relocate_block call places nothing but the block it was called on:
\* at most one block, of the same group and course, of as many hours
RelocatesOnlyItsBlock ==
    LET conflict == scan.movable[scan.mi]
    IN /\ \A x \in MovedIn : x[1] = conflict.group_id /\ x[2].course_id = conflict.course_id
       /\ Cardinality({ BlockKey(x[2].hour_id) : x \in MovedIn }) <= 1
       /\ Cardinality(MovedIn) \in { 0, Len(conflict.hours) }

\* what is left of the run when it stands at p with the loop positions o
\* (orchestrator), f (call) and sc (displacement loops), outermost loop
\* first: the pass, the calls of the first pass, the groups and assignments
\* of the verification pass, the call, its blocks, its rounds, and inside a
\* round the days (sequences), the windows (hours) and the conflicts
Measure(p, o, f, sc) ==
    LET in_placer == f # NoFrame /\ f.is_english /\ D.courses[f.course_id].max_block_duration = 1
    IN << IF o.phase = "first" THEN 1 ELSE 0,
          Len(FirstPassTasks(D)) + 1 - o.ti,
          Len(D.groups) + 1 - o.vg,
          Len(D.assignments) + 1 - o.va,
          IF p \in { "orch", "vgroup", "vassign" } THEN 2
          ELSE IF p \in { "done", "raised" } THEN 0 ELSE 1,
          Len(f.block_durations) + 1 - f.block_idx,
          IF p = "eng" THEN 1 ELSE 0,
          f.max_attempts - f.attempts,
          IF p \in { "scan", "engscan", "reloc", "commit" } THEN 1 ELSE 0,
          IF in_placer THEN Len(sc.sequences) + 1 - sc.si ELSE Len(sc.days) + 1 - sc.di,
          Len(D.valid_slots) + 2 - (IF in_placer THEN sc.hi ELSE sc.start_idx),
          IF p \in { "scan", "engscan" } THEN 2 ELSE IF p = "reloc" THEN 1 ELSE 0,
          Len(sc.movable) + 1 - sc.mi >>

\* the measure after the step is smaller at the first position where it
\* differs from the measure before the step
MeasureDecreases ==
    LET before == Measure(pc, orch, frame, scan)
        after == Measure(pc', orch', frame', scan')
    IN \E i \in DOMAIN before :
          after[i] < before[i] /\ \A j \in 1..(i - 1) : after[j] = before[j]

\* C23: termination - every step of generate_schedule_for_all_groups brings
\* the run closer to its end: a tuple of loop counters, none ever below
\* zero, decreases in lexicographic order on every step, so no run goes on
\* for ever; a block never gets more than max_attempts rounds; a
\* try_relocate_block call places the one block it was called on and
\* relocates no other block
C23_Termination ==
    /\ [][MeasureDecreases]_vars
    /\ [](\A i \in 1..13 : Measure(pc, orch, frame, scan)[i] >= 0)
    /\ [](frame.attempts <= frame.max_attempts)
    /\ [][pc = "reloc" => RelocatesOnlyItsBlock]_vars

\* the run ended after a relocation, with a block that used up its rounds
\* and was left out
C23_Witness ==
    /\ pc = "done"
    /\ \E x \in Placed : IsRelocated(x[2])
    /\ \E i \in DOMAIN D.assignments :
         LET a == D.assignments[i]
         IN /\ a.course_id \in DOMAIN D.courses
            /\ Cardinality(EntriesOf(a.group_id, a.course_id)) < D.courses[a.course_id].weekly_hours

\* a step that undoes the latest assign call of the tracker used on its own
UndoStep == pc = "tracker" /\ Len(undo') < Len(undo)

\* C24: tracker assign/unassign are inverse - for any tracker state and any
\* professor, group and slot list free for both, assign followed by unassign
\* with the same arguments leaves prof_schedule and group_schedule with the
\* same keys and values as before the assign
C24_AssignUnassignInverse ==
    [][ UndoStep =>
          /\ global_tracker'.prof_schedule = undo[Len(undo)].before.prof_schedule
          /\ global_tracker'.group_schedule = undo[Len(undo)].before.group_schedule ]_vars

\* the conflict record try_relocate_block is about to be called on
CurrentConflict == scan.movable[scan.mi]

\* C26: whole-block displacement - the conflict record built for a block
\* that intersects the desired window holds every hour entry of that block,
\* not only the hours inside the window, so that a relocation moves all
\* hours of the block together
C26_WholeBlock ==
    pc = "reloc" =>
        { CurrentConflict.hours[i].hour_id : i \in DOMAIN CurrentConflict.hours }
            = { e.hour_id : e \in BlockEntries(CurrentConflict.group_id, CurrentConflict.block_key) }

\* the step on which try_relocate_block returns False: the loops go on with
\* the next window or hour
RelocationFails == pc = "reloc" /\ pc' \in { "scan", "engscan" }

GenericWindow ==
    SlotIds(Window(D.slots_by_day[scan.days[scan.di]], scan.start_idx,
                   frame.block_durations[frame.block_idx]))

\* a block of a language course intersects the desired window
LanguageBlockInWindow ==
    LET conflicts == get_conflicting_blocks(D, all_schedules, GenericWindow)
    IN \E i \in DOMAIN conflicts : conflicts[i].is_english

\* C28: displacement is abandoned when a language block intersects - in the
\* generic force-assign fallback, when a block of a language course
\* intersects the desired window, try_relocate_block moves no hour entry of
\* any group for that window
C28_AbandonedOnLanguageBlock ==
    [][ (pc = "reloc" /\ ~InEnglishPlacer /\ LanguageBlockInWindow) =>
            \A g \in DOMAIN all_schedules :
                Range(all_schedules'[g]) = Range(all_schedules[g]) ]_vars

\* the hour entries of language courses in a group's schedule
LanguageEntries(schedule) ==
    { e \in Range(schedule) : e.course_id \in DOMAIN D.courses /\ D.courses[e.course_id].english }

\* C29: language-course blocks are protected - try_relocate_block is never
\* called on a block of a language course, and no relocation step, of the
\* generic loop or of the language placer, in the first or the verification
\* pass, removes or moves an hour entry of a language course
C29_LanguageProtected ==
    /\ [](pc = "reloc" =>
            ~(/\ CurrentConflict.course_id \in DOMAIN D.courses
              /\ D.courses[CurrentConflict.course_id].english))
    /\ [][ pc = "reloc" =>
             \A g \in DOMAIN all_schedules :
                 LanguageEntries(all_schedules'[g]) = LanguageEntries(all_schedules[g]) ]_vars

\* every conflict of a window was relocated while a block of a language
\* course stands in that window, and that block is still there
C29_Witness ==
    /\ pc = "commit"
    /\ ~InEnglishPlacer
    /\ LanguageBlockInWindow
    /\ \E g \in DOMAIN all_schedules : \E e \in Range(all_schedules[g]) : IsRelocated(e)

\* the desired window of the displacement that is running: the window of the
\* generic loop, or the slots of the sequence at the hour in the language
\* placer
DesiredWindow ==
    IF InEnglishPlacer
    THEN LET seq == scan.sequences[scan.si]
             hour == (IF frame.fixed_hour # NoHour
                      THEN << frame.fixed_hour >> ELSE scan.hours_to_try)[scan.hi]
         IN [ k \in DOMAIN seq |-> SlotAtHour(D, seq[k], hour).id ]
    ELSE GenericWindow

\* a block of a language course stands in the desired window; such a block
\* is never handed to try_relocate_block
LanguageBlockInDesiredWindow ==
    LET conflicts == get_conflicting_blocks(D, all_schedules, DesiredWindow)
    IN \E i \in DOMAIN conflicts : conflicts[i].is_english

\* C30: window cleared after successful displacement - when try_relocate_block
\* has returned True for every block that intersected the desired window (no
\* block of a language course was among them), no hour entry of any group's
\* schedule occupies a timeslot of that window
C30_WindowCleared ==
    (pc = "commit" /\ ~LanguageBlockInDesiredWindow) =>
        \A g \in DOMAIN all_schedules :
            \A e \in Range(all_schedules[g]) : e.slot_id \notin Range(DesiredWindow)

\* the step on which try_relocate_block returns True: the caller goes on
\* with the next conflict or with its own placement
RelocationSucceeds == pc = "reloc" /\ pc' \in { "reloc", "commit" }

\* C31: a relocated block moves to another day - whenever try_relocate_block
\* returns True, the hour entries it has written lie on a day other than the
\* day the block occupied before the call
C31_MovesToAnotherDay ==
    [][ RelocationSucceeds =>
          \A x \in MovedIn :
              OldDay(D, x[2].slot_id) # OldDay(D, CurrentConflict.hours[1].slot_id) ]_vars

\* the hour entries that do not belong to the block try_relocate_block is
\* called on, with their groups
OtherEntries ==
    { x \in Placed : ~(/\ x[1] = CurrentConflict.group_id
                       /\ BlockKey(x[2].hour_id) = CurrentConflict.block_key) }

\* C32: single-level displacement frame - one call of try_relocate_block,
\* whether it succeeds or fails, leaves every hour entry of another block in
\* place, and leaves the slot of every such entry as busy or free for its
\* group, its professor and its room as it was
C32_SingleLevelFrame ==
    [][ pc = "reloc" =>
          \A x \in OtherEntries :
              LET slot == << x[2].slot_id >>
              IN /\ x \in Placed'
                 /\ can_assign_group(global_tracker', x[1], slot)
                        = can_assign_group(global_tracker, x[1], slot)
                 /\ can_assign_professor(global_tracker', ProfOf(x[1], x[2]), slot)
                        = can_assign_professor(global_tracker, ProfOf(x[1], x[2]), slot)
                 /\ is_room_available(room_usage', x[2].room_id, slot)
                        = is_room_available(room_usage, x[2].room_id, slot) ]_vars

\* the keys a step deletes from group g's schedule before it writes: the
\* hours of the block try_relocate_block is called on
DeletedKeys(g) ==
    IF pc = "reloc" /\ g = CurrentConflict.group_id
    THEN { CurrentConflict.hours[i].hour_id : i \in DOMAIN CurrentConflict.hours }
    ELSE {}

\* C33: identifiers never collide - no write of an hour entry, by the first
\* pass, the language placer, the verification pass or a relocation, uses an
\* identifier that is a key of the group's schedule at that moment, so no
\* existing hour entry is overwritten
C33_NoKeyCollision ==
    [][ \A x \in MovedIn :
          x[2].hour_id \notin (Keys(all_schedules[x[1]]) \ DeletedKeys(x[1])) ]_vars

\* the busy slots the tracker and the room usage hold
BusyOfGroup(g) ==
    IF g \in DOMAIN global_tracker.group_schedule
    THEN DOMAIN global_tracker.group_schedule[g] ELSE {}

BusyOfProfessor(p) ==
    IF p \in DOMAIN global_tracker.prof_schedule
    THEN DOMAIN global_tracker.prof_schedule[p] ELSE {}

BusyOfRoom(r) == IF r \in DOMAIN room_usage THEN room_usage[r] ELSE {}

\* C34: tracker and schedule stay consistent - between placement steps the
\* busy slots of every group are the timeslots of its hour entries, the busy
\* slots of every room are the timeslots of the entries using it, and the
\* busy slots of every professor are the timeslots of the entries the
\* professor teaches
C34_TrackerConsistent ==
    /\ \A g \in DOMAIN all_schedules \cup DOMAIN global_tracker.group_schedule :
         BusyOfGroup(g) = { x[2].slot_id : x \in { y \in Placed : y[1] = g } }
    /\ \A r \in DOMAIN room_usage \cup { x[2].room_id : x \in Placed } :
         BusyOfRoom(r) = { x[2].slot_id : x \in { y \in Placed : y[2].room_id = r } }
    /\ \A p \in DOMAIN global_tracker.prof_schedule \cup { ProfOf(x[1], x[2]) : x \in Placed } :
         BusyOfProfessor(p) = { x[2].slot_id : x \in { y \in Placed : ProfOf(y[1], y[2]) = p } }

\* C35: displacement conserves placed hours - a call of try_relocate_block,
\* whether it returns True or False, leaves the number of hour entries of
\* every (group, course) in the schedule map as it was
C35_ConservesHours ==
    [][ pc = "reloc" =>
          \A g \in DOMAIN all_schedules : \A c \in DOMAIN D.courses :
              Cardinality(EntriesOfNext(g, c)) = Cardinality(EntriesOf(g, c)) ]_vars

\* C36: fixed hour is write-once - course_fixed_hour holds pairs of language
\* courses only; a pair of a language course has a fixed hour exactly when it
\* has a placed hour entry, so it is set at the first successful placement;
\* and no step, displacement or verification pass included, changes or
\* clears a fixed hour that is set
C36_FixedHourWriteOnce ==
    /\ [](\A k \in DOMAIN global_tracker.course_fixed_hour :
              k[2] \in DOMAIN D.courses /\ D.courses[k[2]].english)
    /\ [](\A g \in DOMAIN all_schedules : \A c \in DOMAIN D.courses :
              D.courses[c].english =>
                  (<< g, c >> \in DOMAIN global_tracker.course_fixed_hour
                       <=> EntriesOf(g, c) # {}))
    /\ [][ \A k \in DOMAIN global_tracker.course_fixed_hour :
              /\ k \in DOMAIN global_tracker'.course_fixed_hour
              /\ global_tracker'.course_fixed_hour[k] = global_tracker.course_fixed_hour[k] ]_vars

\* the verification pass is calling again for a language course that has its
\* fixed hour, after a block of the group was relocated
C36_Witness ==
    /\ orch.phase = "verify"
    /\ frame.is_english
    /\ frame.fixed_hour # NoHour
    /\ FixedHourOf(frame.group_id, frame.course_id) = frame.fixed_hour
    /\ \E e \in Range(all_schedules[frame.group_id]) : IsRelocated(e)

\* the (course, group) pairs whose first-pass call is over
AttemptedBefore == { FirstPassTasks(D)[i] : i \in 1..(orch.ti - 1) }

\* the (course, group) pairs the assignments name, course known
AssignedPairs ==
    { << D.assignments[i].course_id, D.assignments[i].group_id >> :
        i \in { j \in DOMAIN D.assignments : D.assignments[j].course_id \in DOMAIN D.courses } }

\* a call of the first pass is running
InFirstPassCall == orch.phase = "first" /\ frame # NoFrame

BlockPending == pc = "block" /\ frame.block_idx <= Len(frame.block_durations)

\* the step on which the loop leaves a block without having placed it
BlockSkipped ==
    /\ BlockPending
    /\ frame'.block_idx = frame.block_idx + 1
    /\ frame'.blocks_assigned = frame.blocks_assigned

\* the key of the block the generic loop is placing
PendingKey == << frame.group_id, frame.course_id, frame.block_idx >>

\* the step places the pending block at a position the Position Finder
\* returns for a day that the one-session-per-day rule does not exclude
PlacedAtFreePosition ==
    LET written == { e \in Range(all_schedules'[frame.group_id]) :
                       BlockKey(e.hour_id) = PendingKey }
    IN \E day \in DirectDays :
         \E pos \in Range(find_all_valid_positions(D, global_tracker, room_usage, FrameCourse,
                              frame.group_id, frame.block_durations[frame.block_idx], day,
                              frame.is_english, frame.fixed_hour)) :
            /\ { e.slot_id : e \in written } = Range(pos.slot_ids)
            /\ Cardinality(written) = Len(pos.slot_ids)

\* C38: free positions are never missed - in the generic loop, when the
\* Position Finder has a position for the pending block on a day that the
\* one-session-per-day rule does not exclude, the round places the block at
\* such a position and relocates no other block; and a block is left
\* unplaced only when no such position exists
C38_FreePositionTaken ==
    /\ [][ (/\ BlockPending
            /\ frame.attempts < frame.max_attempts
            /\ DirectDays # {}
            /\ ~NoScheduleFor(frame.group_id)) =>
              /\ pc' = "block"
              /\ frame'.block_idx = frame.block_idx + 1
              /\ frame'.blocks_assigned = frame.blocks_assigned + 1
              /\ PlacedAtFreePosition
              /\ \A x \in Placed :
                    x \in Placed' \/ (x[1] = frame.group_id /\ BlockKey(x[2].hour_id) = PendingKey) ]_vars
    /\ [][ BlockSkipped => DirectDays = {} ]_vars

\* the list the windows of a call are cut from: the day's valid slots in
\* slot-id order, empty for a day without valid slots
FinderList == IF scan.day \in DOMAIN D.slots_by_day THEN D.slots_by_day[scan.day] ELSE << >>

\* the slots the professor record of a call lists as unavailable
FinderUnavailable ==
    UNION { q.availability : q \in { x \in Range(Scenarios[scn].professors) : x.id = FrameProf } }

\* the start indices (0-based) of the windows a call has to return
FinderWindows ==
    IF FrameProf = None \/ FrameRoom = None
    THEN {}
    ELSE { i \in 0..(Len(FinderList) - scan.duration) :
             /\ \A j \in 1..(scan.duration - 1) :
                   HourOf(FinderList[i + j + 1].start_time) = HourOf(FinderList[i + j].start_time) + 1
             /\ \A j \in 1..scan.duration :
                   /\ FinderList[i + j].id \notin FinderUnavailable
                   /\ FinderList[i + j].id \notin BusyOfProfessor(FrameProf)
                   /\ FinderList[i + j].id \notin BusyOfGroup(frame.group_id)
                   /\ FinderList[i + j].id \notin BusyOfRoom(FrameRoom)
             /\ (/\ FrameCourse.english
                 /\ << frame.group_id, frame.course_id >> \in DOMAIN global_tracker.course_fixed_hour)
                   => FinderList[i + 1].start_time =
                        global_tracker.course_fixed_hour[<< frame.group_id, frame.course_id >>] }

\* C39: the Position Finder is exact and pure - for a course, group, duration
\* d and day it returns exactly the windows of d slots adjacent in the day's
\* sorted valid-slot list whose hours step by 1, whose slots are outside the
\* professor's unavailability set and free for the professor, the group and
\* the professor's room, and which, for a language course with a fixed hour,
\* start at that hour; it returns nothing when the professor or the room
\* lookup is absent; the call leaves schedules, tracker and room usage as
\* they were.
C39_FinderExact ==
    /\ [](pc = "found" =>
            /\ { scan.positions[k].start_idx : k \in DOMAIN scan.positions } = FinderWindows
            /\ Len(scan.positions) = Cardinality(FinderWindows)
            /\ \A k \in DOMAIN scan.positions :
                  LET pos == scan.positions[k]
                  IN /\ pos.day = scan.day
                     /\ pos.slot_ids = [ j \in 1..scan.duration |-> FinderList[pos.start_idx + j].id ]
                     /\ pos.first_hour = FinderList[pos.start_idx + 1].start_time
                     /\ pos.room_id = FrameRoom
                     /\ pos.prof_id = FrameProf)
    /\ [][ pc' = "found" =>
             /\ all_schedules' = all_schedules
             /\ global_tracker' = global_tracker
             /\ room_usage' = room_usage ]_vars

\* a call for a language course with a fixed hour returned a window and left
\* out another window of the day
C39_Witness ==
    /\ pc = "found"
    /\ frame.is_english
    /\ frame.fixed_hour # NoHour
    /\ scan.positions # << >>
    /\ Len(scan.positions) < Len(FinderList) - scan.duration + 1

====
